---- MODULE Spec2Model ----
(***************************************************************************)
(* Model of the SFrame/MLS conferencing client (webapp/appRoom.js,         *)
(* webapp/mls_sframe_session.js, webapp/hkdf.js, sframe_layer.js).         *)
(*                                                                         *)
(* The module holds several specifications over one set of variables:      *)
(*   SpecKid    - computeKid as a pure function over sampled inputs        *)
(*   SpecKdf    - deriveTxKey / deriveRxKey / hkdf as pure functions       *)
(*   SpecResync - mlsResync as a call/return state machine                 *)
(*   Spec       - the session: join, publish, subscribe, resync, rekey,    *)
(*                the sender and receiver frame transforms                 *)
(***************************************************************************)
EXTENDS Integers, Sequences, FiniteSets, TLC

\* JavaScript null / undefined for a reference to an object or a number.
NULL == <<>>

(***************************************************************************)
(* JavaScript numbers.                                                     *)
(*                                                                         *)
(* KIDs exceed 2^31, so a non-negative integer is held as NLimbs limbs of  *)
(* 16 bits, least significant first.  A JavaScript Number is an IEEE       *)
(* double: an integer is exact up to 53 significant bits and every         *)
(* arithmetic result is rounded to 53 bits, ties to even (Round53).        *)
(***************************************************************************)
LimbBase == 256 * 256

NLimbs == 3 + 3

BigZero == [i \in 1..NLimbs |-> 0]

\* A small natural (below 2^31) as limbs.
BigOfInt(n) ==
  [i \in 1..NLimbs |->
     IF i = 1 THEN n % LimbBase
     ELSE IF i = 2 THEN (n \div LimbBase) % LimbBase
     ELSE 0]

RECURSIVE AddFrom(_, _, _, _)
AddFrom(a, b, i, carry) ==
  IF i > NLimbs THEN <<>>
  ELSE LET s == a[i] + b[i] + carry
       IN <<s % LimbBase>> \o AddFrom(a, b, i + 1, s \div LimbBase)

\* Exact sum.
BigAdd(a, b) == LET r == AddFrom(a, b, 1, 0) IN [i \in 1..NLimbs |-> r[i]]

RECURSIVE MulFrom(_, _, _, _)
MulFrom(a, c, i, carry) ==
  IF i > NLimbs THEN <<>>
  ELSE LET s == a[i] * c + carry
       IN <<s % LimbBase>> \o MulFrom(a, c, i + 1, s \div LimbBase)

\* Exact product with a small factor (c below 2^15).
BigMulSmall(a, c) == LET r == MulFrom(a, c, 1, 0) IN [i \in 1..NLimbs |-> r[i]]

Pow2(k) == 2 ^ k

\* Number of significant bits of one limb.
LimbBits(x) == IF x = 0 THEN 0 ELSE CHOOSE k \in 1..16 : Pow2(k - 1) <= x /\ x < Pow2(k)

\* Number of significant bits.
BigBits(a) ==
  LET nz == {i \in 1..NLimbs : a[i] # 0}
  IN IF nz = {} THEN 0
     ELSE LET top == CHOOSE i \in nz : \A j \in nz : j <= i
          IN 16 * (top - 1) + LimbBits(a[top])

\* a < b
BigLess(a, b) ==
  \E i \in 1..NLimbs :
    /\ a[i] < b[i]
    /\ \A j \in (i + 1)..NLimbs : a[j] = b[j]

\* IEEE-754 double rounding of a non-negative integer: keep 53 significant
\* bits, round to nearest, ties to even.  The values that occur are below
\* 2^68, so at most 15 low bits are dropped and they all lie in limb 1.
Round53(a) ==
  LET bits == BigBits(a) IN
  IF bits <= 53 THEN a
  ELSE LET sh    == bits - 53
           q     == Pow2(sh)
           low   == a[1] % q
           down  == [a EXCEPT ![1] = a[1] - low]
           isOdd == ((a[1] \div q) % 2) = 1
       IN IF low * 2 > q \/ (low * 2 = q /\ isOdd)
          THEN BigAdd(down, BigOfInt(q))
          ELSE down

\* x + y and x * c as the JavaScript operators compute them on Numbers.
NumAdd(x, y) == Round53(BigAdd(x, y))

NumMul1e9(x) == Round53(BigMulSmall(BigMulSmall(BigMulSmall(x, 10000), 10000), 10))

NumMul1e4(x) == Round53(BigMulSmall(x, 10000))

NumMul10(x) == Round53(BigMulSmall(x, 10))

\* Number(v) of an integer the server or the page delivers as a JSON number.
ToNumber(v) == Round53(v)

\* x >>> 0 : ToUint32, the value modulo 2^32.
ToUint32(x) == [i \in 1..NLimbs |-> IF i <= 2 THEN x[i] ELSE 0]

(***************************************************************************)
(* Byte strings (Uint8Array).  A byte string is its length and the parts   *)
(* written into it: part [at, src, n] says that n bytes starting at offset *)
(* at are the first n bytes of src.  Bytes no part covers are zero, as in  *)
(* a freshly allocated Uint8Array.                                         *)
(***************************************************************************)
\* new Uint8Array(n)
NewBytes(n) == [len |-> n, parts |-> <<>>]

\* dst.set(src, off) for a whole byte string src
BytesSet(dst, src, off) ==
  [dst EXCEPT !.parts =
     @ \o [k \in 1..Len(src.parts) |-> [src.parts[k] EXCEPT !.at = @ + off]]]

\* src.subarray(0, n)
BytesPrefix(src, n) ==
  [len |-> n,
   parts |-> [k \in 1..Len(src.parts) |->
                [src.parts[k] EXCEPT !.n = IF @ < n - src.parts[k].at
                                           THEN @ ELSE n - src.parts[k].at]]]

\* dst[off] = b
BytesPut(dst, off, b) ==
  [dst EXCEPT !.parts = @ \o <<[at |-> off, src |-> [lit |-> b], n |-> 1]>>]

\* A byte string whose content is the opaque value v, n bytes long.
Opaque(v, n) == [len |-> n, parts |-> <<[at |-> 0, src |-> v, n |-> n]>>]

\* utf8Encode(str) for the ASCII labels the callers build.
utf8Encode(str) == Opaque([utf8 |-> str], Len(str))

(***************************************************************************)
(* webapp/hkdf.js.  SHA-256 is not unfolded: a digest is the 32-byte value *)
(* determined by the key and the data it was computed from.                *)
(***************************************************************************)
hashLen == 32

\* What determines a byte string, as one flat list: its length, then for
\* every part its place and its source; the source of bytes taken from a
\* digest is the list that determines that digest, between brackets.
SrcTokens(src) ==
  IF "hmac" \in DOMAIN src
  THEN <<[mark |-> "("]>> \o src.hmac \o <<[mark |-> ")"]>>
  ELSE <<[src |-> src]>>

RECURSIVE FlatParts(_, _)
FlatParts(parts, k) ==
  IF k > Len(parts) THEN <<>>
  ELSE <<[at |-> parts[k].at, n |-> parts[k].n]>> \o SrcTokens(parts[k].src)
         \o FlatParts(parts, k + 1)

FlatBytes(bytes) == <<[len |-> bytes.len]>> \o FlatParts(bytes.parts, 1)

\* hmacSha256(key, data): 32 bytes determined by (key, data)
hmacSha256(key, data) ==
  Opaque([hmac |-> FlatBytes(key) \o <<[mark |-> "|"]>> \o FlatBytes(data)],
         hashLen)

Min(a, b) == IF a < b THEN a ELSE b

\* Math.ceil(L / hashLen)
CeilDiv(a, b) == (a + b - 1) \div b

\* One turn of the expand loop, for block i: the new tPrev, out and offset.
ExpandStep(prk, info, L, i, tPrev, out, offset) ==
  LET buf0   == NewBytes(tPrev.len + info.len + 1)
      buf1   == BytesSet(buf0, tPrev, 0)
      buf2   == BytesSet(buf1, info, tPrev.len)
      \* buf[buf.length - 1] = i: a Uint8Array element keeps i modulo 256
      buf    == BytesPut(buf2, buf2.len - 1, i % 256)
      t      == hmacSha256(prk, buf)
      toCopy == Min(hashLen, L - offset)
  IN [tPrev  |-> t,
      out    |-> BytesSet(out, BytesPrefix(t, toCopy), offset),
      offset |-> offset + toCopy]

\* The turns first..last of the expand loop, from the tPrev, out and offset
\* in st: the tPrev, out and offset after them.  The turns are taken in the
\* loop's order, the first half before the second.
RECURSIVE ExpandTurns(_, _, _, _, _, _)
ExpandTurns(prk, info, L, first, last, st) ==
  IF first > last THEN st
  ELSE IF first = last
       THEN ExpandStep(prk, info, L, first, st.tPrev, st.out, st.offset)
       ELSE LET mid  == (first + last) \div 2
                half == ExpandTurns(prk, info, L, first, mid, st)
            \* (offset never passes L: the test makes TLC compute the first
            \* half before it enters the second)
            IN IF half.offset <= L
               THEN ExpandTurns(prk, info, L, mid + 1, last, half)
               ELSE half

\* The expand loop: for (let i = 1; i <= nBlocks; i++) { ... }
ExpandLoop(prk, info, L, nBlocks, i, tPrev, out, offset) ==
  ExpandTurns(prk, info, L, i, nBlocks,
              [tPrev |-> tPrev, out |-> out, offset |-> offset]).out

\* hkdf(ikm, label, length); length >>> 0 is length itself for the integers
\* 0 <= length < 2^32 the model passes.
hkdf(ikm, label, length) ==
  LET info     == utf8Encode(label)
      L        == length
      zeroSalt == NewBytes(hashLen)
      prk      == hmacSha256(zeroSalt, ikm)
      nBlocks  == CeilDiv(L, hashLen)
  IN ExpandLoop(prk, info, L, nBlocks, 1, NewBytes(0), NewBytes(L), 0)

(***************************************************************************)
(* mls_sframe_session.js: key derivation.                                  *)
(***************************************************************************)
\* labelForSender(senderIndex)
labelForSender(senderIndex) == "sframe/sender/" \o ToString(senderIndex)

\* A changed derivation label, as a receive-side label would be.
deriveRxKey_OtherLabel(master, remoteSenderIndex) ==
  hkdf(master, "sframe/receiver/" \o ToString(remoteSenderIndex), 32)

\* deriveTxKey(master, senderIndex)
deriveTxKey(master, senderIndex) == hkdf(master, labelForSender(senderIndex), 32)

\* deriveRxKey(master, remoteSenderIndex)
deriveRxKey(master, remoteSenderIndex) ==
  hkdf(master, labelForSender(remoteSenderIndex), 32)

\* base64ToBytes(data.master_secret): the 32-byte secret of the server's
\* epoch number n (n counts the epochs the server has been through).
SecretOfEpoch(n) == Opaque([secret |-> n], 32)

(***************************************************************************)
(* KIDs: mls_sframe_session.js computeKid, and the video KID the callers   *)
(* build from it (kidVideo = kidAudio + 1).                                *)
(***************************************************************************)
BigOne == BigOfInt(1)

\* computeKid(epoch, roomId, senderIndex)
computeKid(epoch, roomId, senderIndex) ==
  LET e == ToUint32(ToNumber(epoch))
      r == ToUint32(ToNumber(roomId))
      s == ToUint32(ToNumber(senderIndex))
  IN NumAdd(NumAdd(NumMul1e9(e), NumMul1e4(r)), NumMul10(s))

\* const kidVideo = kidAudio + 1
kidVideoOf(kidAudio) == NumAdd(kidAudio, BigOne)

MediaKinds == {"audio", "video"}

\* The KID a context uses for a media kind.
KidFor(epoch, roomId, senderIndex, media) ==
  LET kidAudio == computeKid(epoch, roomId, senderIndex)
  IN IF media = "audio" THEN kidAudio ELSE kidVideoOf(kidAudio)

\* The layout the documentation states, in exact integer arithmetic:
\* epoch * 10^9 + room * 10^4 + leaf * 10 + mediaBit.
MediaBit(media) == IF media = "audio" THEN 0 ELSE 1

LayoutKid(epoch, roomId, senderIndex, media) ==
  BigAdd(BigAdd(BigAdd(BigMulSmall(BigMulSmall(BigMulSmall(epoch, 10000), 10000), 10),
                       BigMulSmall(roomId, 10000)),
                BigMulSmall(senderIndex, 10)),
         BigOfInt(MediaBit(media)))

\* Sampled inputs.  Epochs: two neighbours, one that differs from the first
\* by 2^32, one whose KID needs more than 53 bits.  Rooms: the room of the
\* documentation's example and two 6-digit ids as /api/new-room issues them.
TwoPow32 == [i \in 1..NLimbs |-> IF i = 3 THEN 1 ELSE 0]

EpochSamples ==
  {BigOfInt(7), BigOfInt(8), BigAdd(TwoPow32, BigOfInt(7)), BigOfInt(9007200)}

RoomSamples == {BigOfInt(1234), BigOfInt(100000), BigOfInt(200000)}

LeafSamples == {BigOfInt(3), BigOfInt(5)}

KidInputs ==
  [epoch : EpochSamples, room : RoomSamples, leaf : LeafSamples, media : MediaKinds]

(***************************************************************************)
(* mls_sframe_session.js: mlsJoin and mlsResync.                           *)
(***************************************************************************)
\* What mlsJoin returns on a 2xx response: the fields of the JSON body, the
\* epoch as the Number JSON.parse makes of it, master_secret decoded.
JoinInfo(senderIndex, epoch, secretNo) ==
  [sender_index  |-> senderIndex,
   epoch         |-> ToNumber(epoch),
   master_secret |-> SecretOfEpoch(secretNo)]

\* mlsResync that hands out the joined info also when the epoch is unchanged.
mlsResync_ReturnsNew(currentInfo, newInfo) ==
  IF currentInfo = NULL THEN [changed |-> TRUE, info |-> newInfo]
  ELSE [changed |-> newInfo.epoch # currentInfo.epoch, info |-> newInfo]

\* mlsResync(identity, roomId, currentInfo), from the point where its
\* mlsJoin has returned newInfo (a failed mlsJoin throws through it).
mlsResync(currentInfo, newInfo) ==
  IF currentInfo = NULL THEN [changed |-> TRUE, info |-> newInfo]
  ELSE IF newInfo.epoch # currentInfo.epoch
       THEN [changed |-> TRUE, info |-> newInfo]
       ELSE [changed |-> FALSE, info |-> currentInfo]

(***************************************************************************)
(* mls_sframe_session.js: the display name "identity#index".  A string is  *)
(* a sequence of one-character strings.                                    *)
(***************************************************************************)
Digits == <<"0", "1", "2", "3", "4", "5", "6", "7", "8", "9">>

IsDigit(c) == \E d \in 1..10 : Digits[d] = c

DigitValue(c) == (CHOOSE d \in 1..10 : Digits[d] = c) - 1

\* String(n) for a non-negative integer
RECURSIVE Decimal(_)
Decimal(n) ==
  IF n < 10 THEN <<Digits[n + 1]>> ELSE Decimal(n \div 10) \o <<Digits[(n % 10) + 1]>>

\* The value of a run of decimal digits.
RECURSIVE DigitsValue(_)
DigitsValue(str) ==
  IF str = <<>> THEN 0
  ELSE 10 * DigitsValue(SubSeq(str, 1, Len(str) - 1)) + DigitValue(str[Len(str)])

\* White space is stripped from both ends before a string is read as a number.
RECURSIVE TrimLeft(_)
TrimLeft(str) ==
  IF str # <<>> /\ str[1] = " " THEN TrimLeft(Tail(str)) ELSE str

RECURSIVE TrimRight(_)
TrimRight(str) ==
  IF str # <<>> /\ str[Len(str)] = " "
  THEN TrimRight(SubSeq(str, 1, Len(str) - 1)) ELSE str

\* Number(str) over the characters the model uses (letters, digits, '#',
\* ' ', '-'): [finite |-> whether Number.isFinite holds, value |-> the number].
\* The empty string and white space alone are the number 0.
JsNumber(str) ==
  LET t    == TrimRight(TrimLeft(str))
      body == IF t # <<>> /\ t[1] = "-" THEN Tail(t) ELSE t
      neg  == t # <<>> /\ t[1] = "-"
  IN IF t = <<>> THEN [finite |-> TRUE, value |-> 0]
     ELSE IF body # <<>> /\ \A k \in 1..Len(body) : IsDigit(body[k])
          THEN [finite |-> TRUE,
                value |-> IF neg THEN 0 - DigitsValue(body) ELSE DigitsValue(body)]
          ELSE [finite |-> FALSE, value |-> 0]

\* display.indexOf("#"): the first '#' instead of the last.
LastIndexOfHash_First(display) ==
  LET at == {k \in 1..Len(display) : display[k] = "#"}
  IN IF at = {} THEN 0 ELSE CHOOSE k \in at : \A j \in at : k <= j

\* display.lastIndexOf("#"), counted from 1; 0 when there is none
LastIndexOfHash(display) ==
  LET at == {k \in 1..Len(display) : display[k] = "#"}
  IN IF at = {} THEN 0 ELSE CHOOSE k \in at : \A j \in at : j <= k

\* attachIndexToIdentity(name, senderIndex)
attachIndexToIdentity(name, senderIndex) == name \o <<"#">> \o Decimal(senderIndex)

\* parseIdentityWithIndex(display).  senderIndex: null is hasIndex = FALSE.
parseIdentityWithIndex(display) ==
  LET idx == LastIndexOfHash(display) IN
  IF idx = 0 THEN [identity |-> display, hasIndex |-> FALSE, senderIndex |-> 0]
  ELSE LET identity == SubSeq(display, 1, idx - 1)
           indexStr == SubSeq(display, idx + 1, Len(display))
           i        == JsNumber(indexStr)
       IN IF ~i.finite
          THEN [identity |-> display, hasIndex |-> FALSE, senderIndex |-> 0]
          ELSE [identity |-> identity, hasIndex |-> TRUE, senderIndex |-> i.value]

(***************************************************************************)
(* sframe_layer.js and the WasmPeer it wraps.  A peer is the KIDs and the  *)
(* secret it was built from; forEpoch and forIndex remember the epoch and  *)
(* the sender index its creator read, for stating properties.              *)
(***************************************************************************)
\* createTxPeer(kidAudio, kidVideo, txKey): the peer, or null when the
\* WasmPeer constructor throws (built = FALSE).
createTxPeer(kidAudio, kidVideo, txKey, forEpoch, forIndex, built) ==
  IF built
  THEN [kidAudio |-> kidAudio, kidVideo |-> kidVideo, key |-> txKey,
        forEpoch |-> forEpoch, forIndex |-> forIndex]
  ELSE NULL

\* createRxPeer(99, 98, kidAudio, kidVideo, rxKey)
createRxPeer(kidAudio, kidVideo, rxKey, forEpoch, forIndex, built) ==
  IF built
  THEN [kidAudio |-> kidAudio, kidVideo |-> kidVideo, key |-> rxKey,
        forEpoch |-> forEpoch, forIndex |-> forIndex]
  ELSE NULL

\* A chunk as the encoder hands it to a sender transform, and as the
\* transport hands it to a receiver transform.
ClearChunk == [form |-> "clear"]

ReceivedChunk == [form |-> "received"]

\* The bytes peer.encrypt_audio(u8) / peer.encrypt_video(u8) returns.
PeerEncrypt(peer, kind) == [form |-> "sframe", by |-> peer, kind |-> kind]

\* The bytes peer.decrypt_audio(u8) / peer.decrypt_video(u8) returns when it
\* does not throw.
PeerDecrypt(peer, kind) == [form |-> "decrypted", by |-> peer, kind |-> kind]

(***************************************************************************)
(* appRoom.js: the frame transforms.                                       *)
(***************************************************************************)
\* What the sender transform enqueues for one chunk.  peer is
\* txPeerRefLocal.peer, or NULL when the reference or its peer is missing;
\* throws says that encrypt_audio / encrypt_video throws.
SenderTransform(peer, kind, throws) ==
  IF peer = NULL THEN ClearChunk
  ELSE IF throws THEN ClearChunk
  ELSE PeerEncrypt(peer, kind)

\* A receiver transform that, like the sender's, passes the chunk on when
\* decryption throws.
ReceiverTransform_PassOnError(keySync, peer, kind, chunk, throws) ==
  IF keySync THEN [enqueue |-> FALSE, data |-> chunk]
  ELSE IF peer = NULL THEN [enqueue |-> FALSE, data |-> chunk]
  ELSE IF throws THEN [enqueue |-> TRUE, data |-> chunk]
  ELSE [enqueue |-> TRUE, data |-> PeerDecrypt(peer, kind)]

\* A receiver transform that does not read the key-sync flag.
ReceiverTransform_IgnoreKeySync(keySync, peer, kind, chunk, throws) ==
  IF peer = NULL THEN [enqueue |-> FALSE, data |-> chunk]
  ELSE IF throws THEN [enqueue |-> FALSE, data |-> chunk]
  ELSE [enqueue |-> TRUE, data |-> PeerDecrypt(peer, kind)]

\* What the receiver transform does with one chunk: enqueue says whether
\* controller.enqueue is reached, data is the chunk's data at that point.
\* peer is sub.rxPeerRef.peer, or NULL when the reference or its peer is
\* missing; throws says that decrypt_audio / decrypt_video throws.
ReceiverTransform(keySync, peer, kind, chunk, throws) ==
  IF keySync THEN [enqueue |-> FALSE, data |-> chunk]
  ELSE IF peer = NULL THEN [enqueue |-> FALSE, data |-> chunk]
  ELSE IF throws THEN [enqueue |-> FALSE, data |-> chunk]
  ELSE [enqueue |-> TRUE, data |-> PeerDecrypt(peer, kind)]

(***************************************************************************)
(* State.                                                                  *)
(***************************************************************************)
VARIABLES
  \* inputs and results of computeKid and of kidAudio + 1
  kidInA, kidInB, kidOutA, kidOutB,
  \* inputs and results of deriveTxKey / deriveRxKey
  kdfMaster, kdfIndex, kdfTx, kdfRx,
  \* one mlsResync call: its argument, its position, the mlsJoin result, its
  \* return value
  rsCur, rsPc, rsJoined, rsOut,
  \* attachIndexToIdentity / parseIdentityWithIndex: the name and index given
  \* to attach, the display string, the result of parsing it
  idName, idIndex, idDisplay, idParsed,
  \* one request to /mls/join or /mls/roster: the route, what the MLS server
  \* does with it, the answer of the HTTPS proxy, what the caller of mlsJoin
  \* or mlsFetchRoster gets
  httpRoute, httpBackend, httpProxied, httpResult,
  \* the error log of the receiver transforms: Date.now(), the time stamp of
  \* the rate limit, whether a subscriber is receiving, the times of the last
  \* two "RX decrypt" entries of the log
  rxNow, lastRxDecryptErrorTs, rxReceiving, rxPrevLog, rxLastLog,
  \* one call of hkdf: the key material, the label, the length asked for,
  \* the bytes returned
  hkIkm, hkLabel, hkLength, hkOut,
  \* the SFrame core: the sender context, the receiver context, the records
  \* sealed so far in the order of their seals, the records the receiver
  \* context has accepted, and the seal or open just made
  sfTx, sfRx, sfWire, sfOpened, sfLast,
  \* one SFrame packet: the KID and the CTR of its header (as big-endian
  \* bytes), the packet, and what inspectSframePacket reports of it
  hdKid, hdCtr, hdBuf, hdInfo,
  \* sframe_layer.js: window.SFRAME is set, initPromise, the outcome of every
  \* initWasm() started, what each caller of initSFrame is doing, the call
  \* just made
  wiSframe, wiPromise, wiAttempts, wiCallers, wiLast, wiBoot,
  \* the signalling relay: the state of each connection, the rooms map, what
  \* the relay has sent on each connection, the number of messages received
  rlConns, rlRooms, rlOut, rlSeq,
  \* one connection of the Janus WebSocket proxy: the browser socket and the
  \* flag clientOpen, the upstream socket and the flag janusOpen,
  \* pendingToJanus, what was sent to Janus and to the browser, and what the
  \* browser socket has delivered to the proxy
  pxClient, pxClientOpen, pxJanus, pxJanusOpen, pxPending, pxToJanus,
  pxToClient, pxReceived,
  \* the environment of a session: the room typed in the page, the MLS
  \* server's first epoch, the display of the publisher behind each feed id,
  \* how many times the MLS server advanced, the Janus replies and
  \* notifications still owed on the open socket
  room, epochBase, remotes, srvEpochNo, pending,
  \* the browser: sockets created so far, window.SFRAME / initPromise, the
  \* connect and hangup buttons
  socks, sframe, uiConnected,
  \* appRoom.js globals
  ws, sessionId, pluginHandlePub, pcPub, localStream, mlsInfo, myIdentity,
  txPeerRef, subscribers, keySyncInProgress,
  \* the heap: the { peer } objects made by startPublishing, the subscriber
  \* objects made by subscribeToPublisher, the sender transforms attached
  txRefs, subObjs, txTransforms,
  \* the async functions suspended at an await
  procs,
  \* the chunk the step just taken handled, when it was a step of a sender
  \* transform or of a receiver transform; whether the MLS request succeeded
  \* and the publishers then subscribed to, when it was the step of a
  \* maybeResyncMls resuming from its request
  lastTx, lastRx, lastSync

kidVars == <<kidInA, kidInB, kidOutA, kidOutB>>

kdfVars == <<kdfMaster, kdfIndex, kdfTx, kdfRx>>

rsVars == <<rsCur, rsPc, rsJoined, rsOut>>

envVars == <<room, epochBase, remotes, srvEpochNo, pending>>

browserVars == <<socks, sframe, uiConnected>>

appVars == <<ws, sessionId, pluginHandlePub, pcPub, localStream, mlsInfo,
             myIdentity, txPeerRef, subscribers, keySyncInProgress>>

heapVars == <<txRefs, subObjs, txTransforms>>

obsVars == <<lastTx, lastRx, lastSync>>

sessionVars == <<envVars, browserVars, appVars, heapVars, procs, obsVars>>

idVars == <<idName, idIndex, idDisplay, idParsed>>

httpVars == <<httpRoute, httpBackend, httpProxied, httpResult>>

rxLogVars == <<rxNow, lastRxDecryptErrorTs, rxReceiving, rxPrevLog, rxLastLog>>

hkVars == <<hkIkm, hkLabel, hkLength, hkOut>>

sfVars == <<sfTx, sfRx, sfWire, sfOpened, sfLast>>

hdVars == <<hdKid, hdCtr, hdBuf, hdInfo>>

wiVars == <<wiSframe, wiPromise, wiAttempts, wiCallers, wiLast, wiBoot>>

rlVars == <<rlConns, rlRooms, rlOut, rlSeq>>

pxVars == <<pxClient, pxClientOpen, pxJanus, pxJanusOpen, pxPending, pxToJanus,
            pxToClient, pxReceived>>

srvVars == <<rlVars, pxVars>>

extVars == <<hkVars, sfVars, hdVars, wiVars, srvVars>>

moreVars == <<idVars, httpVars, rxLogVars, extVars>>

pureVars == <<kidVars, kdfVars, rsVars, moreVars>>

vars == <<pureVars, sessionVars>>

oldVars == <<kidVars, kdfVars, rsVars, idVars, httpVars, rxLogVars, srvVars,
             sessionVars>>

clientVars == <<kidVars, kdfVars, rsVars, idVars, httpVars, rxLogVars, hkVars,
                sfVars, hdVars, wiVars, sessionVars>>

KidIdle == kidInA = NULL /\ kidInB = NULL /\ kidOutA = NULL /\ kidOutB = NULL

KdfIdle == kdfMaster = NULL /\ kdfIndex = 0 /\ kdfTx = NULL /\ kdfRx = NULL

ResyncIdle == rsCur = NULL /\ rsPc = "idle" /\ rsJoined = NULL /\ rsOut = NULL

IdIdle == idName = NULL /\ idIndex = 0 - 1 /\ idDisplay = NULL /\ idParsed = NULL

HttpIdle ==
  httpRoute = NULL /\ httpBackend = NULL /\ httpProxied = NULL /\ httpResult = NULL

RxLogIdle ==
  /\ rxNow = 0 /\ lastRxDecryptErrorTs = 0 /\ rxReceiving = FALSE
  /\ rxPrevLog = 0 /\ rxLastLog = 0

HkIdle == hkIkm = NULL /\ hkLabel = NULL /\ hkLength = 0 /\ hkOut = NULL

SfIdle ==
  sfTx = NULL /\ sfRx = NULL /\ sfWire = <<>> /\ sfOpened = {} /\ sfLast = NULL

HdIdle == hdKid = NULL /\ hdCtr = NULL /\ hdBuf = NULL /\ hdInfo = NULL

WiIdle ==
  /\ wiSframe = FALSE /\ wiPromise = 0 /\ wiAttempts = <<>>
  /\ wiCallers = <<>> /\ wiLast = NULL /\ wiBoot = "absent"

RlIdle == rlConns = NULL /\ rlRooms = NULL /\ rlOut = NULL /\ rlSeq = 0

PxIdle ==
  /\ pxClient = NULL /\ pxClientOpen = FALSE /\ pxJanus = NULL
  /\ pxJanusOpen = FALSE /\ pxPending = <<>> /\ pxToJanus = <<>>
  /\ pxToClient = 0 /\ pxReceived = <<>>

SrvIdle == RlIdle /\ PxIdle

ExtIdle == HkIdle /\ SfIdle /\ HdIdle /\ WiIdle /\ SrvIdle

MoreIdle == IdIdle /\ HttpIdle /\ RxLogIdle /\ ExtIdle

(***************************************************************************)
(* The session: the page of appRoom.js, its sockets, Janus and the MLS     *)
(* server.  One action is one task of the event loop: a handler or the     *)
(* continuation of an async function, run up to its next await on the      *)
(* network, the camera, the WASM loader or a peer connection.  (The awaits *)
(* on deriveTxKey, deriveRxKey and on an initSFrame that is already loaded *)
(* resolve within the same task.)                                          *)
(***************************************************************************)
MaxSockets == 1
MaxFeeds == 1
MaxSubObjs == 2
MaxEpochs == 1
MaxProcs == 2

\* The rooms a page is opened on, and the epochs the MLS server starts from:
\* with room 1234 the KIDs of epoch 9007199 are the last ones below 2^53,
\* those of the next epoch lie above it.
SessionRooms == {BigOfInt(1234)}

StartEpochs == {BigOfInt(9007199)}

\* data.sender_index of this client in the MLS server's answers.
SelfIndex == 1

\* The remote publishers, by feed: the display Janus reports for them.
RemotePeers ==
  << [display |-> <<"b", "#", "3">>],
     [display |-> <<"c">>],
     [display |-> <<"d", "#", "5">>] >>

Feeds == 1..MaxFeeds

RemoteOf(feed) == RemotePeers[((feed - 1) % Len(RemotePeers)) + 1]

\* The displays the publisher that holds a feed id may have joined with:
\* one that carries its sender index, or one that carries none.
DisplaysOf(feed) == {RemoteOf(feed).display, RemoteOf(feed + 1).display}

\* The publishers / participants arrays of a Janus event: entries
\* { id, display } of publishers in the room.
PublisherLists ==
  SUBSET {[id |-> f, display |-> remotes[f]] : f \in Feeds}

\* The epoch the MLS server is in after n advances, and its answer to a join.
EpochOf(n) == BigAdd(epochBase, BigOfInt(n))

\* mlsJoin(identity, roomId) when the server answers from its n-th epoch.
mlsJoin(n) == JoinInfo(SelfIndex, EpochOf(n), n)

\* Janus replies and notifications owed to the page.
Owed(t, n) == [t |-> t, n |-> n]

\* An async function suspended at an await.
Proc(k, pc) ==
  [k |-> k, pc |-> pc, cur |-> NULL, lo |-> 0, feeds |-> {}, sub |-> 0]

FreeProc == Proc("free", "")

FreePids == {p \in 1..MaxProcs : procs[p].k = "free"}

NewPid == CHOOSE p \in FreePids : \A q \in FreePids : p <= q

\* sendJanus(obj) sends only on an open socket.
sendJanus == ws # 0 /\ socks[ws] = "open"

\* A subscriber object as subscribeToPublisher creates it.
NewSub(feedId, display) ==
  [feedId |-> feedId, display |-> display, pc |-> "none", handleId |-> FALSE,
   peer |-> NULL, rx |-> FALSE]

\* A subscribeToPublisher without the test subscribers.has(feedId).
subscribeToPublisher_NoCheck(feedId, display, st, session) ==
  [subscribers |-> [st.subscribers EXCEPT ![feedId] = Len(st.subObjs) + 1],
   subObjs     |-> Append(st.subObjs, NewSub(feedId, display)),
   pending     |-> IF sendJanus /\ session # 0
                   THEN st.pending \cup {Owed("attach-sub", feedId)}
                   ELSE st.pending]

\* subscribeToPublisher(feedId, display) on st = the subscribers map, the
\* subscriber objects and the replies owed; session is the sessionId sent.
subscribeToPublisher(feedId, display, st, session) ==
  IF st.subscribers[feedId] # 0 THEN st
  ELSE [subscribers |-> [st.subscribers EXCEPT ![feedId] = Len(st.subObjs) + 1],
        subObjs     |-> Append(st.subObjs, NewSub(feedId, display)),
        pending     |-> IF sendJanus /\ session # 0
                        THEN st.pending \cup {Owed("attach-sub", feedId)}
                        ELSE st.pending]

RECURSIVE SubscribeAll(_, _, _)
\* publishers.forEach(p => subscribeToPublisher(p.id, p.display))
SubscribeAll(feeds, st, session) ==
  IF feeds = {} THEN st
  ELSE LET f == CHOOSE x \in feeds : \A y \in feeds : x.id <= y.id
       IN SubscribeAll(feeds \ {f},
                       subscribeToPublisher(f.id, f.display, st, session),
                       session)

\* A subscriber object that left the subscribers map: its connection is
\* closed, no track of it carries frames any more, and no handler finds
\* it; what else it held is not kept.
ClosedSub(sub) ==
  [feedId |-> sub.feedId, display |-> sub.display, pc |-> "closed",
   handleId |-> FALSE, peer |-> NULL, rx |-> FALSE]

\* removeSubscriber(feedId) on the subscribers map and the objects.
removeSubscriber(feedId, st) ==
  IF st.subscribers[feedId] = 0 THEN st
  ELSE LET o == st.subscribers[feedId]
       IN [st EXCEPT !.subObjs[o] = ClosedSub(@),
                     !.subscribers[feedId] = 0]

\* A setRemoteDescription that resolves on a closed connection as well.
setRemoteDescription_OnClosed(sub, ok) == ok

\* await sub.pc.setRemoteDescription(...) resolves: the browser applied the
\* description (ok) and the connection was not closed meanwhile; on a closed
\* connection the promise rejects or never settles.
setRemoteDescription(sub, ok) == ok /\ sub.pc = "open"

\* A sender context keyed from the secret of the first epoch.
TxPeerOf_FirstSecret(info, built) ==
  LET selfIndex == info.sender_index
      txKey     == deriveTxKey(mlsJoin(0).master_secret, selfIndex)
      kidAudio  == computeKid(info.epoch, room, BigOfInt(selfIndex))
      kidVideo  == kidVideoOf(kidAudio)
  IN createTxPeer(kidAudio, kidVideo, txKey, info.epoch, selfIndex, built)

\* The sender context of an MLS info.
TxPeerOf(info, built) ==
  LET selfIndex == info.sender_index
      txKey     == deriveTxKey(info.master_secret, selfIndex)
      kidAudio  == computeKid(info.epoch, room, BigOfInt(selfIndex))
      kidVideo  == kidVideoOf(kidAudio)
  IN createTxPeer(kidAudio, kidVideo, txKey, info.epoch, selfIndex, built)

\* The receiver context of an MLS info for a remote sender index.
RxPeerOf(info, remoteIndex, built) ==
  LET rxKey    == deriveRxKey(info.master_secret, remoteIndex)
      kidAudio == computeKid(info.epoch, room, BigOfInt(remoteIndex))
      kidVideo == kidVideoOf(kidAudio)
  IN createRxPeer(kidAudio, kidVideo, rxKey, info.epoch, remoteIndex, built)

\* rekeyAllPeers() with mlsInfo = info: the new { peer } objects and
\* subscriber objects.  builtTx and builtRx[feed] say whether the WasmPeer
\* constructors succeed.
rekeyTx(info, builtTx) ==
  IF info # NULL /\ pcPub /\ localStream /\ txPeerRef # 0
  THEN [txRefs EXCEPT ![txPeerRef] = TxPeerOf(info, builtTx)]
  ELSE txRefs

rekeyRx_NoIndexCheck(info, subs, objs, builtRx) ==
  IF info = NULL THEN objs
  ELSE [o \in DOMAIN objs |->
          IF subs[objs[o].feedId] = o
          THEN [objs[o] EXCEPT
                  !.peer = RxPeerOf(info,
                                    parseIdentityWithIndex(objs[o].display).senderIndex,
                                    builtRx[objs[o].feedId])]
          ELSE objs[o]]

rekeyRx(info, subs, objs, builtRx) ==
  IF info = NULL THEN objs
  ELSE [o \in DOMAIN objs |->
          IF /\ subs[objs[o].feedId] = o
             /\ parseIdentityWithIndex(objs[o].display).hasIndex
          THEN [objs[o] EXCEPT
                  !.peer = RxPeerOf(info,
                                    parseIdentityWithIndex(objs[o].display).senderIndex,
                                    builtRx[objs[o].feedId])]
          ELSE objs[o]]

\* The page after load, before Connect.
SessionFresh ==
  /\ srvEpochNo = 0 /\ pending = {}
  /\ socks = <<>> /\ sframe = "none" /\ uiConnected = FALSE
  /\ ws = 0 /\ sessionId = 0 /\ pluginHandlePub = 0
  /\ pcPub = FALSE /\ localStream = FALSE
  /\ mlsInfo = NULL /\ myIdentity = FALSE /\ txPeerRef = 0
  /\ subscribers = [f \in Feeds |-> 0]
  /\ keySyncInProgress = FALSE
  /\ txRefs = <<>> /\ subObjs = <<>> /\ txTransforms = {}
  /\ procs = [p \in 1..MaxProcs |-> FreeProc]
  /\ lastTx = NULL /\ lastRx = NULL /\ lastSync = NULL

SessionIdle == room = NULL /\ epochBase = NULL /\ remotes = NULL /\ SessionFresh

Init ==
  /\ KidIdle /\ KdfIdle /\ ResyncIdle /\ MoreIdle
  /\ room \in SessionRooms
  /\ epochBase \in StartEpochs
  /\ remotes \in [Feeds -> UNION {DisplaysOf(f) : f \in Feeds}]
  /\ \A f \in Feeds : remotes[f] \in DisplaysOf(f)
  /\ SessionFresh

\* A step that is not a step of a frame transform nor the end of a resync.
NoChunk == lastTx' = NULL /\ lastRx' = NULL /\ lastSync' = NULL

\* cleanup()
cleanup ==
  /\ pcPub' = FALSE
  /\ localStream' = FALSE
  /\ txTransforms' = {}
  /\ subObjs' = [o \in DOMAIN subObjs |->
                   IF subscribers[subObjs[o].feedId] = o
                   THEN ClosedSub(subObjs[o]) ELSE subObjs[o]]
  /\ subscribers' = [f \in Feeds |-> 0]
  /\ sessionId' = 0
  /\ pluginHandlePub' = 0
  /\ mlsInfo' = NULL
  /\ myIdentity' = FALSE
  /\ txPeerRef' = 0
  /\ keySyncInProgress' = FALSE
  /\ uiConnected' = FALSE

\* connectAndJoinRoom(), the click on Connect, while the page has created
\* fewer than max sockets
ConnectUpTo(max) ==
  /\ ~uiConnected
  /\ Len(socks) < max
  /\ socks' = Append(socks, "connecting")
  /\ ws' = Len(socks) + 1
  /\ uiConnected' = TRUE
  /\ NoChunk
  /\ UNCHANGED <<pureVars, envVars, sframe, sessionId, pluginHandlePub, pcPub,
                 localStream, mlsInfo, myIdentity, txPeerRef, subscribers,
                 keySyncInProgress, heapVars, procs>>

Connect == ConnectUpTo(MaxSockets)

\* ws.onopen of socket s
WsOpen ==
  \E s \in DOMAIN socks :
    /\ socks[s] = "connecting"
    /\ socks' = [socks EXCEPT ![s] = "open"]
    /\ pending' = IF s = ws THEN pending \cup {Owed("create", 0)} ELSE pending
    /\ NoChunk
    /\ UNCHANGED <<pureVars, room, epochBase, remotes, srvEpochNo, sframe, uiConnected, appVars,
                   heapVars, procs>>

\* ws.onclose of socket s: the socket was closed by hangup, or it is lost
WsClose ==
  \E s \in DOMAIN socks :
    /\ socks[s] # "closed"
    /\ socks' = [socks EXCEPT ![s] = "closed"]
    /\ pending' = IF s = ws THEN {} ELSE pending
    /\ cleanup
    /\ NoChunk
    /\ UNCHANGED <<pureVars, room, epochBase, remotes, srvEpochNo, sframe, ws, txRefs, procs>>

\* hangup(), the click on Hangup
Hangup ==
  /\ uiConnected
  /\ socks' = IF ws # 0 /\ socks[ws] # "closed"
              THEN [socks EXCEPT ![ws] = "closing"] ELSE socks
  /\ pending' = {}
  /\ cleanup
  /\ NoChunk
  /\ UNCHANGED <<pureVars, room, epochBase, remotes, srvEpochNo, sframe, ws, txRefs, procs>>

\* The join request of joinAsPublisher is answered with "joined" when it
\* reaches Janus on a live session and handle that has not joined yet.
JoinSent(owed, session, handle) ==
  IF /\ sendJanus /\ session # 0 /\ handle # 0
     /\ Owed("joined", 0) \notin owed /\ Owed("room", 0) \notin owed
  THEN owed \cup {Owed("joined", 0)}
  ELSE owed

\* handleSuccess, transaction create-*
JanusCreated ==
  /\ Owed("create", 0) \in pending
  /\ sessionId' = 1
  /\ pending' = (pending \ {Owed("create", 0)}) \cup {Owed("attach-pub", 0)}
  /\ NoChunk
  /\ UNCHANGED <<pureVars, room, epochBase, remotes, srvEpochNo, browserVars, ws, pluginHandlePub,
                 pcPub, localStream, mlsInfo, myIdentity, txPeerRef,
                 subscribers, keySyncInProgress, heapVars, procs>>

\* handleSuccess, transaction attach-pub-*: joinAsPublisher() up to its
\* first pending await
JanusAttachedPub ==
  /\ Owed("attach-pub", 0) \in pending
  /\ pluginHandlePub' = 1
  /\ myIdentity' = TRUE
  /\ IF sframe # "ready"
     THEN /\ FreePids # {}
          /\ sframe' = "loading"
          /\ procs' = [procs EXCEPT ![NewPid] = Proc("joinAsPublisher", "initSFrame")]
          /\ pending' = pending \ {Owed("attach-pub", 0)}
     ELSE IF mlsInfo = NULL
     THEN /\ FreePids # {}
          /\ procs' = [procs EXCEPT ![NewPid] =
                         [Proc("joinAsPublisher", "mlsJoin") EXCEPT !.lo = srvEpochNo]]
          /\ pending' = pending \ {Owed("attach-pub", 0)}
          /\ UNCHANGED sframe
     ELSE /\ pending' = JoinSent(pending \ {Owed("attach-pub", 0)}, sessionId, 1)
          /\ UNCHANGED <<sframe, procs>>
  /\ NoChunk
  /\ UNCHANGED <<pureVars, room, epochBase, remotes, srvEpochNo, socks, uiConnected, ws, sessionId,
                 pcPub, localStream, mlsInfo, txPeerRef, subscribers,
                 keySyncInProgress, heapVars>>

\* initWasm() settles: window.SFRAME is set and every joinAsPublisher
\* waiting on initPromise goes on to its mlsJoin, or initPromise is reset
\* and they end in their catch
WasmLoaded ==
  \E loaded \in BOOLEAN :
    /\ sframe = "loading"
    /\ sframe' = IF loaded THEN "ready" ELSE "none"
    /\ procs' = [p \in DOMAIN procs |->
                   IF procs[p].pc # "initSFrame" THEN procs[p]
                   ELSE IF loaded /\ mlsInfo = NULL
                   THEN [procs[p] EXCEPT !.pc = "mlsJoin", !.lo = srvEpochNo]
                   ELSE FreeProc]
    /\ pending' = IF loaded /\ mlsInfo # NULL
                     /\ \E p \in DOMAIN procs : procs[p].pc = "initSFrame"
                  THEN JoinSent(pending, sessionId, pluginHandlePub)
                  ELSE pending
    /\ NoChunk
    /\ UNCHANGED <<pureVars, room, epochBase, remotes, srvEpochNo, socks, uiConnected, appVars,
                   heapVars>>

\* joinAsPublisher() resumes from await mlsJoin(myIdentity, room)
JoinAsPublisherResume ==
  \E p \in DOMAIN procs, ok \in BOOLEAN :
    /\ procs[p].k = "joinAsPublisher" /\ procs[p].pc = "mlsJoin"
    /\ procs' = [procs EXCEPT ![p] = FreeProc]
    /\ IF ok
       THEN \E n \in procs[p].lo..srvEpochNo :
              /\ mlsInfo' = mlsJoin(n)
              /\ pending' = JoinSent(pending, sessionId, pluginHandlePub)
       ELSE UNCHANGED <<mlsInfo, pending>>
    /\ NoChunk
    /\ UNCHANGED <<pureVars, room, epochBase, remotes, srvEpochNo, browserVars, ws, sessionId,
                   pluginHandlePub, pcPub, localStream, myIdentity, txPeerRef,
                   subscribers, keySyncInProgress, heapVars>>

\* startPublishing() after its mlsInfo is known: the TX context, pcPub,
\* and the wait for getUserMedia.  (initSFrame() has returned before any
\* join was sent, so its await resolves at once.)
startPublishingKeys(info, built) ==
  /\ txRefs' = Append(txRefs, TxPeerOf(info, built))
  /\ txPeerRef' = Len(txRefs) + 1
  /\ pcPub' = TRUE

\* handleEvent, videoroom "joined" on the publisher handle
JanusJoined ==
  \E feeds \in PublisherLists, built \in BOOLEAN :
    LET st == SubscribeAll(feeds,
                [subscribers |-> subscribers, subObjs |-> subObjs,
                 pending |-> (pending \ {Owed("joined", 0)}) \cup {Owed("room", 0)}],
                sessionId)
    IN /\ Owed("joined", 0) \in pending
       /\ pluginHandlePub # 0
       /\ Len(st.subObjs) <= MaxSubObjs
       /\ FreePids # {}
       /\ subscribers' = st.subscribers
       /\ subObjs' = st.subObjs
       /\ pending' = st.pending
       /\ IF mlsInfo = NULL
          THEN /\ myIdentity' = TRUE
               /\ procs' = [procs EXCEPT ![NewPid] =
                              [Proc("startPublishing", "mlsJoin") EXCEPT !.lo = srvEpochNo]]
               /\ UNCHANGED <<txRefs, txPeerRef, pcPub>>
          ELSE /\ startPublishingKeys(mlsInfo, built)
               /\ procs' = [procs EXCEPT ![NewPid] = Proc("startPublishing", "getUserMedia")]
               /\ UNCHANGED myIdentity
       /\ NoChunk
       /\ UNCHANGED <<pureVars, room, epochBase, remotes, srvEpochNo, browserVars, ws, sessionId,
                      pluginHandlePub, localStream, mlsInfo, keySyncInProgress,
                      txTransforms>>

\* startPublishing() resumes from await mlsJoin (late join) or from
\* await getUserMedia
StartPublishingResume ==
  \E p \in DOMAIN procs, ok \in BOOLEAN, built \in BOOLEAN :
    /\ procs[p].k = "startPublishing"
    /\ IF procs[p].pc = "mlsJoin"
       THEN IF ok
            THEN \E n \in procs[p].lo..srvEpochNo :
                   /\ mlsInfo' = mlsJoin(n)
                   /\ startPublishingKeys(mlsJoin(n), built)
                   /\ procs' = [procs EXCEPT ![p].pc = "getUserMedia"]
                   /\ UNCHANGED <<localStream, txTransforms>>
            ELSE /\ procs' = [procs EXCEPT ![p] = FreeProc]
                 /\ UNCHANGED <<mlsInfo, txRefs, txPeerRef, pcPub, localStream,
                                txTransforms>>
       ELSE /\ procs' = [procs EXCEPT ![p] = FreeProc]
            /\ localStream' = (ok \/ localStream)
            /\ txTransforms' =
                 IF ok /\ pcPub
                 THEN txTransforms \cup
                        {[kind |-> k, ref |-> txPeerRef] : k \in MediaKinds}
                 ELSE txTransforms
            /\ UNCHANGED <<mlsInfo, txRefs, txPeerRef, pcPub>>
    /\ NoChunk
    /\ UNCHANGED <<pureVars, envVars, browserVars, ws, sessionId, pluginHandlePub,
                   myIdentity, subscribers, keySyncInProgress, subObjs>>

\* maybeResyncMls(reason) up to its await, followed by then(feeds) when it
\* returns at once.  (reason only reaches the log.)  st is the subscribers map, objects and replies owed
\* that the handler has produced so far.
maybeResyncMls(reason, feeds, st) ==
  IF mlsInfo = NULL \/ ~myIdentity
  THEN LET st2 == SubscribeAll(feeds, st, sessionId)
       IN /\ Len(st2.subObjs) <= MaxSubObjs
          /\ subscribers' = st2.subscribers
          /\ subObjs' = st2.subObjs
          /\ pending' = st2.pending
          /\ UNCHANGED <<keySyncInProgress, procs>>
  ELSE /\ FreePids # {}
       /\ Len(st.subObjs) <= MaxSubObjs
       /\ subscribers' = st.subscribers
       /\ subObjs' = st.subObjs
       /\ pending' = st.pending
       /\ keySyncInProgress' = TRUE
       /\ procs' = [procs EXCEPT ![NewPid] =
                      [Proc("maybeResyncMls", "mlsJoin") EXCEPT
                         !.cur = mlsInfo, !.lo = srvEpochNo, !.feeds = feeds]]

HandlerState ==
  [subscribers |-> subscribers, subObjs |-> subObjs, pending |-> pending]

\* handleEvent, videoroom "event" with publishers on the publisher handle
JanusPublishers ==
  \E feeds \in PublisherLists \ {{}} :
    /\ Owed("room", 0) \in pending
    /\ pluginHandlePub # 0
    /\ maybeResyncMls("new-publishers", feeds, HandlerState)
    /\ NoChunk
    /\ UNCHANGED <<pureVars, room, epochBase, remotes, srvEpochNo, browserVars, ws, sessionId,
                   pluginHandlePub, pcPub, localStream, mlsInfo, myIdentity,
                   txPeerRef, txRefs, txTransforms>>

\* handleEvent, data.unpublished or data.leaving on the publisher handle
JanusGone ==
  \E feed \in Feeds :
    /\ Owed("room", 0) \in pending
    /\ pluginHandlePub # 0
    /\ maybeResyncMls("unpublished", {}, removeSubscriber(feed, HandlerState))
    /\ NoChunk
    /\ UNCHANGED <<pureVars, room, epochBase, remotes, srvEpochNo, browserVars, ws, sessionId,
                   pluginHandlePub, pcPub, localStream, mlsInfo, myIdentity,
                   txPeerRef, txRefs, txTransforms>>

\* handleEvent, videoroom "participants"
JanusParticipants ==
  \E feeds \in PublisherLists :
    /\ Owed("room", 0) \in pending
    /\ maybeResyncMls("participants-list", {},
                      SubscribeAll(feeds, HandlerState, sessionId))
    /\ NoChunk
    /\ UNCHANGED <<pureVars, room, epochBase, remotes, srvEpochNo, browserVars, ws, sessionId,
                   pluginHandlePub, pcPub, localStream, mlsInfo, myIdentity,
                   txPeerRef, txRefs, txTransforms>>

\* handleSuccess, transaction attach-sub-<feedId>, then joinAsSubscriber
JanusAttachedSub ==
  \E feed \in Feeds :
    LET o == subscribers[feed]
        owed == pending \ {Owed("attach-sub", feed)}
    IN /\ Owed("attach-sub", feed) \in pending
       /\ IF o # 0
          THEN /\ subObjs' = [subObjs EXCEPT ![o].handleId = TRUE]
               /\ pending' = IF sendJanus /\ sessionId # 0
                             THEN owed \cup {Owed("jsep", o)} ELSE owed
          ELSE /\ pending' = owed
               /\ UNCHANGED subObjs
       /\ NoChunk
       /\ UNCHANGED <<pureVars, room, epochBase, remotes, srvEpochNo, browserVars, appVars, txRefs,
                      txTransforms, procs>>

\* handleEvent with a jsep on a subscriber handle: handleSubscriberJsep up
\* to await sub.pc.setRemoteDescription
JanusSubscriberJsep ==
  \E o \in DOMAIN subObjs :
    /\ Owed("jsep", o) \in pending
    /\ pending' = pending \ {Owed("jsep", o)}
    /\ IF subscribers[subObjs[o].feedId] = o /\ subObjs[o].handleId
       THEN /\ FreePids # {}
            /\ subObjs' = [subObjs EXCEPT ![o].pc = IF @ = "none" THEN "open" ELSE @]
            /\ procs' = [procs EXCEPT ![NewPid] =
                           [Proc("handleSubscriberJsep", "setRemoteDescription")
                              EXCEPT !.sub = o]]
       ELSE UNCHANGED <<subObjs, procs>>
    /\ NoChunk
    /\ UNCHANGED <<pureVars, room, epochBase, remotes, srvEpochNo, browserVars, appVars, txRefs,
                   txTransforms>>

\* handleSubscriberJsep resumes from await setRemoteDescription: the tracks
\* have arrived (ontrack attached the receiver transforms) and the RX
\* context is installed; on a closed connection the await rejects
HandleSubscriberJsepResume ==
  \E p \in DOMAIN procs, ok \in BOOLEAN, built \in BOOLEAN :
    LET o == procs[p].sub
        parsed == parseIdentityWithIndex(subObjs[o].display)
    IN /\ procs[p].k = "handleSubscriberJsep"
       /\ procs' = [procs EXCEPT ![p] = FreeProc]
       /\ subObjs' =
            IF ~setRemoteDescription(subObjs[o], ok) THEN subObjs
            ELSE IF mlsInfo = NULL \/ ~parsed.hasIndex
            THEN [subObjs EXCEPT ![o].rx = TRUE]
            ELSE [subObjs EXCEPT
                    ![o].rx = TRUE,
                    ![o].peer = RxPeerOf(mlsInfo, parsed.senderIndex, built)]
       /\ NoChunk
       /\ UNCHANGED <<pureVars, envVars, browserVars, appVars, txRefs, txTransforms>>

\* A maybeResyncMls that goes on to rekey whatever its request did.
Rekeys_OnFailure(ok, info, changed) == info # NULL /\ changed

\* Whether maybeResyncMls reaches mlsInfo = info and rekeyAllPeers(): its
\* request succeeded (ok), the epoch changed, and reading mlsInfo.epoch for
\* the log did not throw (it does when cleanup() ran meanwhile).
Rekeys(ok, info, changed) == ok /\ info # NULL /\ changed

\* maybeResyncMls(reason) resumes from await mlsResync, whose request
\* succeeded (ok) or failed, runs rekeyAllPeers when the epoch changed,
\* clears the key-sync flag, and then(feeds) runs
MaybeResyncMlsSettles(ok) ==
  \E p \in DOMAIN procs, n \in 0..srvEpochNo :
    LET r == mlsResync(procs[p].cur, mlsJoin(n))
        rekeys == Rekeys(ok, mlsInfo, r.changed)
    IN /\ procs[p].k = "maybeResyncMls"
       /\ n >= procs[p].lo
       /\ ~ok => n = procs[p].lo
       /\ \E builtTx \in (IF rekeys THEN BOOLEAN ELSE {TRUE}),
             builtRx \in (IF rekeys THEN [Feeds -> BOOLEAN] ELSE {[f \in Feeds |-> TRUE]}) :
            LET objs == IF rekeys
                        THEN rekeyRx(r.info, subscribers, subObjs, builtRx)
                        ELSE subObjs
                st == SubscribeAll(procs[p].feeds,
                        [subscribers |-> subscribers, subObjs |-> objs,
                         pending |-> pending], sessionId)
            IN /\ Len(st.subObjs) <= MaxSubObjs
               /\ mlsInfo' = IF rekeys THEN r.info ELSE mlsInfo
               /\ txRefs' = IF rekeys THEN rekeyTx(r.info, builtTx) ELSE txRefs
               /\ subscribers' = st.subscribers
               /\ subObjs' = st.subObjs
               /\ pending' = st.pending
       /\ procs' = [procs EXCEPT ![p] = FreeProc]
       /\ keySyncInProgress' = FALSE
       /\ lastTx' = NULL /\ lastRx' = NULL
       /\ lastSync' = [ok |-> ok, feeds |-> procs[p].feeds]
       /\ UNCHANGED <<pureVars, room, epochBase, remotes, srvEpochNo, browserVars, ws,
                      sessionId, pluginHandlePub, pcPub, localStream, myIdentity,
                      txPeerRef, txTransforms>>

MaybeResyncMlsResume == \E ok \in BOOLEAN : MaybeResyncMlsSettles(ok)

\* The MLS server moves to its next epoch (a member joined or left), while
\* it has advanced fewer than max times.
ServerEpochAdvanceUpTo(max) ==
  /\ srvEpochNo < max
  /\ srvEpochNo' = srvEpochNo + 1
  /\ NoChunk
  /\ UNCHANGED <<pureVars, room, epochBase, remotes, pending, browserVars, appVars, heapVars, procs>>

ServerEpochAdvance == ServerEpochAdvanceUpTo(MaxEpochs)

\* The encoder hands a chunk to a sender transform.
SenderFrame ==
  \E t \in txTransforms, throws \in BOOLEAN :
    LET peer == IF t.ref = 0 THEN NULL ELSE txRefs[t.ref]
    IN /\ throws => peer # NULL
       /\ lastTx' = [kind |-> t.kind, peer |-> peer, throws |-> throws,
                     sync |-> keySyncInProgress,
                     data |-> SenderTransform(peer, t.kind, throws)]
       /\ lastRx' = NULL /\ lastSync' = NULL
       /\ UNCHANGED <<pureVars, envVars, browserVars, appVars, heapVars, procs>>

\* The transport hands a chunk of a subscribed feed to a receiver transform.
ReceiverFrame ==
  \E o \in DOMAIN subObjs, kind \in MediaKinds, throws \in BOOLEAN :
    LET peer == subObjs[o].peer
        res == ReceiverTransform(keySyncInProgress, peer, kind, ReceivedChunk, throws)
    IN /\ subObjs[o].rx /\ subObjs[o].pc = "open"
       /\ throws => (~keySyncInProgress /\ peer # NULL)
       /\ lastRx' = [sub |-> o, kind |-> kind, chunk |-> ReceivedChunk,
                     sync |-> keySyncInProgress, peer |-> peer,
                     throws |-> throws,
                     enqueue |-> res.enqueue, data |-> res.data]
       /\ lastTx' = NULL /\ lastSync' = NULL
       /\ UNCHANGED <<pureVars, envVars, browserVars, appVars, heapVars, procs>>

Next ==
  \/ Connect \/ WsOpen \/ WsClose \/ Hangup
  \/ JanusCreated \/ JanusAttachedPub \/ WasmLoaded \/ JoinAsPublisherResume
  \/ JanusJoined \/ StartPublishingResume
  \/ JanusPublishers \/ JanusGone \/ JanusParticipants
  \/ JanusAttachedSub \/ JanusSubscriberJsep \/ HandleSubscriberJsepResume
  \/ MaybeResyncMlsResume \/ ServerEpochAdvance
  \/ SenderFrame \/ ReceiverFrame

Spec == Init /\ [][Next]_vars

\* What the event loop, an open socket and a settled promise guarantee: a
\* reply Janus owes on an open socket is delivered, the WASM loader and
\* every fetch, getUserMedia and setRemoteDescription settle, and the
\* continuation of an async function then runs.  Nothing obliges the user
\* to click, the network to fail, the room or the MLS group to change, or
\* media to flow.
Fairness ==
  /\ WF_vars(WsOpen) /\ WF_vars(JanusCreated) /\ WF_vars(JanusAttachedPub)
  /\ WF_vars(WasmLoaded) /\ WF_vars(JoinAsPublisherResume)
  /\ WF_vars(JanusJoined) /\ WF_vars(StartPublishingResume)
  /\ WF_vars(JanusAttachedSub) /\ WF_vars(JanusSubscriberJsep)
  /\ WF_vars(HandleSubscriberJsepResume) /\ WF_vars(MaybeResyncMlsResume)

SpecLive == Init /\ [][Next]_vars /\ Fairness

\* The same when the MLS server may leave a request unanswered for ever:
\* mlsJoin and mlsResync await a fetch that has no timeout and no abort
\* signal, so nothing obliges joinAsPublisher or maybeResyncMls to resume.
FairnessUnanswered ==
  /\ WF_vars(WsOpen) /\ WF_vars(JanusCreated) /\ WF_vars(JanusAttachedPub)
  /\ WF_vars(WasmLoaded)
  /\ WF_vars(JanusJoined) /\ WF_vars(StartPublishingResume)
  /\ WF_vars(JanusAttachedSub) /\ WF_vars(JanusSubscriberJsep)
  /\ WF_vars(HandleSubscriberJsepResume)

SpecUnanswered == Init /\ [][Next]_vars /\ FairnessUnanswered

(***************************************************************************)
(* Overlapping resyncs: one connection that stays up while the MLS server  *)
(* advances more than once and the room changes.  The subscriber           *)
(* connections are not followed and no frames are observed.                *)
(***************************************************************************)
MaxOverlapEpochs == 2

EpochAdvanceAgain == ServerEpochAdvanceUpTo(MaxOverlapEpochs)

NextOverlap ==
  \/ Connect \/ WsOpen
  \/ JanusCreated \/ JanusAttachedPub \/ WasmLoaded \/ JoinAsPublisherResume
  \/ JanusJoined \/ StartPublishingResume
  \/ JanusPublishers \/ JanusGone \/ JanusParticipants
  \/ MaybeResyncMlsResume \/ EpochAdvanceAgain

SpecOverlap == Init /\ [][NextOverlap]_vars

(***************************************************************************)
(* Reconnecting: the user hangs up and connects again, so the page has     *)
(* created more than one socket; the close event of a socket fires when    *)
(* the browser has closed it.  The room does not change and no frames are  *)
(* observed.                                                               *)
(***************************************************************************)
MaxReconnectSockets == 2

ConnectAgain == ConnectUpTo(MaxReconnectSockets)

NextReconnect ==
  \/ ConnectAgain \/ WsOpen \/ WsClose \/ Hangup
  \/ JanusCreated \/ JanusAttachedPub \/ WasmLoaded \/ JoinAsPublisherResume
  \/ JanusJoined \/ StartPublishingResume

SpecReconnect == Init /\ [][NextReconnect]_vars

(***************************************************************************)
(* computeKid and kidAudio + 1 as functions: two KIDs are computed from    *)
(* two inputs.                                                             *)
(***************************************************************************)
InitKid ==
  /\ kidInA \in KidInputs /\ kidInB \in KidInputs
  /\ kidOutA = NULL /\ kidOutB = NULL
  /\ KdfIdle /\ ResyncIdle /\ MoreIdle /\ SessionIdle

KidApplyA ==
  /\ kidOutA = NULL
  /\ kidOutA' = KidFor(kidInA.epoch, kidInA.room, kidInA.leaf, kidInA.media)
  /\ UNCHANGED <<kidInA, kidInB, kidOutB, kdfVars, rsVars, moreVars, sessionVars>>

KidApplyB ==
  /\ kidOutB = NULL
  /\ kidOutB' = KidFor(kidInB.epoch, kidInB.room, kidInB.leaf, kidInB.media)
  /\ UNCHANGED <<kidInA, kidInB, kidOutA, kdfVars, rsVars, moreVars, sessionVars>>

NextKid == KidApplyA \/ KidApplyB

SpecKid == InitKid /\ [][NextKid]_vars

\* C3: the KID computed for (epoch, room, leaf, media) is
\* epoch*10^9 + room*10^4 + leaf*10 + mediaBit, for every epoch of 64 bits.
C3_KidIsLayout ==
  kidOutA # NULL =>
    kidOutA = LayoutKid(kidInA.epoch, kidInA.room, kidInA.leaf, kidInA.media)

\* C4: two different tuples (epoch, room, leaf, media) never get the same KID.
C4_KidInjective ==
  (kidOutA # NULL /\ kidOutB # NULL /\ kidInA # kidInB) => kidOutA # kidOutB

\* C5: for the same room, leaf and media kind, two different epochs never
\* get the same KID.
C5_EpochSeparation ==
  ( /\ kidOutA # NULL /\ kidOutB # NULL
    /\ kidInA.room = kidInB.room /\ kidInA.leaf = kidInB.leaf
    /\ kidInA.media = kidInB.media
    /\ kidInA.epoch # kidInB.epoch )
  => kidOutA # kidOutB

(***************************************************************************)
(* deriveTxKey and deriveRxKey as functions of an epoch secret and a leaf  *)
(* index.                                                                  *)
(***************************************************************************)
MaxKdfSecret == 4
MaxKdfIndex == 5

InitKdf ==
  /\ kdfMaster \in {SecretOfEpoch(n) : n \in 0..MaxKdfSecret}
  /\ kdfIndex \in 0..MaxKdfIndex
  /\ kdfTx = NULL /\ kdfRx = NULL
  /\ KidIdle /\ ResyncIdle /\ MoreIdle /\ SessionIdle

KdfDeriveTx ==
  /\ kdfTx = NULL
  /\ kdfTx' = deriveTxKey(kdfMaster, kdfIndex)
  /\ UNCHANGED <<kdfMaster, kdfIndex, kdfRx, kidVars, rsVars, moreVars, sessionVars>>

KdfDeriveRx ==
  /\ kdfRx = NULL
  /\ kdfRx' = deriveRxKey(kdfMaster, kdfIndex)
  /\ UNCHANGED <<kdfMaster, kdfIndex, kdfTx, kidVars, rsVars, moreVars, sessionVars>>

NextKdf == KdfDeriveTx \/ KdfDeriveRx

SpecKdf == InitKdf /\ [][NextKdf]_vars

\* C7: deriveTxKey(m, i) and deriveRxKey(m, i) are the same 32 bytes, the
\* HKDF of m under the label sframe/sender/<i>.
C7_TxKeyIsRxKey ==
  /\ kdfTx # NULL =>
       /\ kdfTx = hkdf(kdfMaster, "sframe/sender/" \o ToString(kdfIndex), 32)
       /\ kdfTx.len = 32
  /\ kdfRx # NULL =>
       kdfRx = hkdf(kdfMaster, "sframe/sender/" \o ToString(kdfIndex), 32)
  /\ (kdfTx # NULL /\ kdfRx # NULL) => kdfTx = kdfRx

C7_BothDerived == kdfTx # NULL /\ kdfRx # NULL /\ kdfIndex > 0

(***************************************************************************)
(* One call of mlsResync.                                                  *)
(***************************************************************************)
MaxResyncSecret == 2

ResyncEpochs == {BigOfInt(7), BigOfInt(8)}

ResyncInfos ==
  {JoinInfo(i, e, n) : i \in {SelfIndex, SelfIndex + 1}, e \in ResyncEpochs,
                       n \in 0..MaxResyncSecret}

InitResync ==
  /\ rsCur \in {NULL} \cup ResyncInfos
  /\ rsPc = "start" /\ rsJoined = NULL /\ rsOut = NULL
  /\ KidIdle /\ KdfIdle /\ MoreIdle /\ SessionIdle

\* mlsResync is called and waits in mlsJoin
ResyncCall ==
  /\ rsPc = "start"
  /\ rsPc' = "mlsJoin"
  /\ UNCHANGED <<rsCur, rsJoined, rsOut, kidVars, kdfVars, moreVars, sessionVars>>

\* mlsJoin returns newInfo and mlsResync returns
ResyncJoinOk ==
  \E newInfo \in ResyncInfos :
    /\ rsPc = "mlsJoin"
    /\ rsJoined' = newInfo
    /\ rsOut' = mlsResync(rsCur, newInfo)
    /\ rsPc' = "returned"
    /\ UNCHANGED <<rsCur, kidVars, kdfVars, moreVars, sessionVars>>

\* mlsJoin throws (HTTP status not ok) and so does mlsResync
ResyncJoinFail ==
  /\ rsPc = "mlsJoin"
  /\ rsPc' = "thrown"
  /\ UNCHANGED <<rsCur, rsJoined, rsOut, kidVars, kdfVars, moreVars, sessionVars>>

NextResync == ResyncCall \/ ResyncJoinOk \/ ResyncJoinFail

SpecResync == InitResync /\ [][NextResync]_vars

\* C8: mlsResync returns only after a join; changed is true exactly when
\* there was no current info or the joined epoch differs from the current
\* one; with changed false the info returned is the caller's current info.
C8_ChangedIffEpochDiffers ==
  /\ rsOut # NULL => rsPc = "returned" /\ rsJoined # NULL
  /\ rsPc = "returned" =>
       /\ rsOut.changed <=> (rsCur = NULL \/ rsJoined.epoch # rsCur.epoch)
       /\ ~rsOut.changed => rsOut.info = rsCur
       /\ rsOut.changed => rsOut.info = rsJoined

C8_UnchangedButDifferent ==
  rsPc = "returned" /\ ~rsOut.changed /\ rsJoined # rsCur

(***************************************************************************)
(* attachIndexToIdentity and parseIdentityWithIndex as functions: a name   *)
(* and a sender index are attached and the display is parsed, or a display *)
(* as Janus may report it is parsed.  idIndex = -1: nothing to attach.     *)
(***************************************************************************)
MaxIdIndex == 12
LargeIdIndex == 1234567

IdNames ==
  { <<>>, <<"a">>, <<"a", "b">>, <<"a", "#", "b">>, <<"#">>, <<"a", "#">>,
    <<"a", "#", "7">>, <<" ", "a", " ">>, <<"7">>, <<"-">> }

IdIndices == (0..MaxIdIndex) \cup {LargeIdIndex}

IdDisplays ==
  { <<"c">>, <<"b", "#">>, <<"b", "#", "x">>, <<"b", "#", " ">>,
    <<"b", "#", "-", "3">>, <<"b", "#", "3", "x">>, <<"#">>,
    <<"b", "#", "3">>, <<"b", "#", " ", "3">>, <<"a", "#", "b", "#">>,
    <<"b", "#", "-">>, <<"b", "#", "1", "0">> }

InitId ==
  /\ \/ idName \in IdNames /\ idIndex \in IdIndices /\ idDisplay = NULL
     \/ idName = NULL /\ idIndex = 0 - 1 /\ idDisplay \in IdDisplays
  /\ idParsed = NULL
  /\ KidIdle /\ KdfIdle /\ ResyncIdle /\ ExtIdle /\ HttpIdle /\ RxLogIdle /\ SessionIdle

IdAttach ==
  /\ idIndex >= 0 /\ idDisplay = NULL
  /\ idDisplay' = attachIndexToIdentity(idName, idIndex)
  /\ UNCHANGED <<idName, idIndex, idParsed, kidVars, kdfVars, rsVars, extVars, httpVars,
                 rxLogVars, sessionVars>>

IdParse ==
  /\ idDisplay # NULL /\ idParsed = NULL
  /\ idParsed' = parseIdentityWithIndex(idDisplay)
  /\ UNCHANGED <<idName, idIndex, idDisplay, kidVars, kdfVars, rsVars, extVars, httpVars,
                 rxLogVars, sessionVars>>

NextId == IdAttach \/ IdParse

SpecId == InitId /\ [][NextId]_vars

\* A decimal leaf index: one or more decimal digits.
IsLeafIndex(str) == str # <<>> /\ \A k \in 1..Len(str) : IsDigit(str[k])

\* C14: a display without '#', or whose text after the last '#' is not a
\* decimal leaf index (the empty text included), parses to an absent sender
\* index.
C14_BadSuffixIsAbsent ==
  idParsed # NULL =>
    LET idx == LastIndexOfHash(idDisplay)
    IN (idx = 0 \/ ~IsLeafIndex(SubSeq(idDisplay, idx + 1, Len(idDisplay))))
         => ~idParsed.hasIndex

\* C16: parsing the display made from a name and a sender index gives the
\* name and the index back, also when the name contains '#'.
C16_RoundTrip ==
  (idParsed # NULL /\ idIndex >= 0) =>
    /\ idParsed.hasIndex
    /\ idParsed.identity = idName
    /\ idParsed.senderIndex = idIndex

C16_ParsedNameWithHash ==
  /\ idParsed # NULL
  /\ idIndex >= 10
  /\ \E k \in 1..Len(idName) : idName[k] = "#"
  /\ idParsed.identity = idName

(***************************************************************************)
(* One request to the MLS server: the browser calls mlsJoin or             *)
(* mlsFetchRoster, fetch goes to the HTTPS proxy of secure.server.js, the  *)
(* proxy asks the MLS server.  A body is "info" (the JSON the endpoint     *)
(* documents), "error" (some other JSON) or "text" (not JSON).             *)
(***************************************************************************)
HttpStatuses == {200, 201, 204, 301, 400, 404, 500, 503}

HttpRoutes == {"join", "roster"}

\* What the MLS server does with the proxy's request: the connection fails,
\* or it answers with a status and a body.
HttpBackends ==
  {[reachable |-> FALSE, status |-> 0, body |-> "none"]}
    \cup [reachable : {TRUE}, status : HttpStatuses, body : {"info", "error", "text"}]

\* A proxy that answers 200 when the MLS server cannot be reached.
ProxyReply_Unreachable200(backend) ==
  IF ~backend.reachable THEN [status |-> 200, body |-> "error"]
  ELSE IF backend.body = "text" THEN [status |-> 502, body |-> "error"]
  ELSE [status |-> IF backend.status = 0 THEN 200 ELSE backend.status,
        body |-> backend.body]

\* app.post("/mls/join") and app.get("/mls/roster"): the answer sent to the
\* browser.  proxyReq "error" and a body that JSON.parse rejects give 502;
\* otherwise res.status(proxyRes.statusCode || 200).json(json).
ProxyReply(backend) ==
  IF ~backend.reachable THEN [status |-> 502, body |-> "error"]
  ELSE IF backend.body = "text" THEN [status |-> 502, body |-> "error"]
  ELSE [status |-> IF backend.status = 0 THEN 200 ELSE backend.status,
        body |-> backend.body]

\* resp.ok
RespOk(status) == status >= 200 /\ status <= 299

\* What the caller of mlsJoin gets for the answer fetch received (NULL:
\* fetch rejected).  base64ToBytes throws when data.master_secret is not a
\* string.
mlsJoinFetch(reply) ==
  IF reply = NULL THEN [throws |-> TRUE, value |-> NULL]
  ELSE IF ~RespOk(reply.status) THEN [throws |-> TRUE, value |-> NULL]
  ELSE IF reply.body # "info" THEN [throws |-> TRUE, value |-> NULL]
  ELSE [throws |-> FALSE, value |-> "info"]

\* What the caller of mlsFetchRoster gets: the parsed body as it is.
mlsFetchRoster(reply) ==
  IF reply = NULL THEN [throws |-> TRUE, value |-> NULL]
  ELSE IF ~RespOk(reply.status) THEN [throws |-> TRUE, value |-> NULL]
  ELSE [throws |-> FALSE, value |-> reply.body]

InitHttp ==
  /\ httpRoute \in HttpRoutes
  /\ httpBackend \in HttpBackends
  /\ httpProxied = NULL /\ httpResult = NULL
  /\ KidIdle /\ KdfIdle /\ ResyncIdle /\ ExtIdle /\ IdIdle /\ RxLogIdle /\ SessionIdle

\* The proxy handles POST /mls/join.
HttpProxyJoin ==
  /\ httpRoute = "join" /\ httpProxied = NULL /\ httpResult = NULL
  /\ httpProxied' = ProxyReply(httpBackend)
  /\ UNCHANGED <<httpRoute, httpBackend, httpResult, kidVars, kdfVars, rsVars, extVars,
                 idVars, rxLogVars, sessionVars>>

\* The proxy handles GET /mls/roster.
HttpProxyRoster ==
  /\ httpRoute = "roster" /\ httpProxied = NULL /\ httpResult = NULL
  /\ httpProxied' = ProxyReply(httpBackend)
  /\ UNCHANGED <<httpRoute, httpBackend, httpResult, kidVars, kdfVars, rsVars, extVars,
                 idVars, rxLogVars, sessionVars>>

\* mlsJoin resumes from await fetch: with the proxy's answer, or with a
\* rejection when the request did not reach the proxy.
HttpMlsJoin ==
  /\ httpRoute = "join" /\ httpResult = NULL
  /\ httpResult' = mlsJoinFetch(httpProxied)
  /\ UNCHANGED <<httpRoute, httpBackend, httpProxied, kidVars, kdfVars, rsVars, extVars,
                 idVars, rxLogVars, sessionVars>>

\* mlsFetchRoster resumes from await fetch.
HttpMlsFetchRoster ==
  /\ httpRoute = "roster" /\ httpResult = NULL
  /\ httpResult' = mlsFetchRoster(httpProxied)
  /\ UNCHANGED <<httpRoute, httpBackend, httpProxied, kidVars, kdfVars, rsVars, extVars,
                 idVars, rxLogVars, sessionVars>>

NextHttp == HttpProxyJoin \/ HttpProxyRoster \/ HttpMlsJoin \/ HttpMlsFetchRoster

SpecHttp == InitHttp /\ [][NextHttp]_vars

\* C17: when fetch is rejected or answered with a status outside 200..299,
\* mlsJoin and mlsFetchRoster throw and return nothing; and when the MLS
\* server is unreachable or answers outside 200..299, the proxy's answer is
\* outside 200..299 as well.
C17_FailureIsSurfaced ==
  /\ httpResult # NULL =>
        ((httpProxied = NULL \/ ~RespOk(httpProxied.status))
           => (httpResult.throws /\ httpResult.value = NULL))
  /\ httpProxied # NULL =>
        ((~httpBackend.reachable \/ ~RespOk(httpBackend.status))
           => ~RespOk(httpProxied.status))

C17_UnreachableBackendThrown ==
  /\ httpResult # NULL
  /\ httpProxied # NULL
  /\ ~httpBackend.reachable
  /\ httpResult.throws

(***************************************************************************)
(* The error log of the receiver transforms over time.  Date.now() counts  *)
(* milliseconds; the page is followed from RxStartMs in ticks of RxTickMs. *)
(* A time of 0 in rxPrevLog / rxLastLog: no such log entry yet.            *)
(***************************************************************************)
RxStartMs == 5000
RxTickMs == 400
MaxRxTicks == 6

\* now - lastRxDecryptErrorTs > 1000
RxLogEveryMs == 1000

InitRxLog ==
  /\ rxNow = RxStartMs
  /\ lastRxDecryptErrorTs = 0
  /\ rxReceiving = FALSE
  /\ rxPrevLog = 0 /\ rxLastLog = 0
  /\ KidIdle /\ KdfIdle /\ ResyncIdle /\ ExtIdle /\ IdIdle /\ HttpIdle /\ SessionIdle

\* Time passes.
RxClockTick ==
  /\ rxNow < RxStartMs + MaxRxTicks * RxTickMs
  /\ rxNow' = rxNow + RxTickMs
  /\ UNCHANGED <<lastRxDecryptErrorTs, rxReceiving, rxPrevLog, rxLastLog,
                 kidVars, kdfVars, rsVars, extVars, idVars, httpVars, sessionVars>>

\* connectAndJoinRoom up to the end of handleSubscriberJsep: a subscriber
\* has a receiver context and its tracks carry chunks.  Getting there takes
\* time, one tick at least.
RxSubscribed ==
  /\ ~rxReceiving
  /\ rxNow < RxStartMs + MaxRxTicks * RxTickMs
  /\ rxNow' = rxNow + RxTickMs
  /\ rxReceiving' = TRUE
  /\ UNCHANGED <<lastRxDecryptErrorTs, rxPrevLog, rxLastLog,
                 kidVars, kdfVars, rsVars, extVars, idVars, httpVars, sessionVars>>

\* A receiver transform gets a chunk whose decrypt call throws: the catch
\* logs "RX decrypt" when the rate limit allows it, and drops the chunk.
RxDecryptFails ==
  /\ rxReceiving
  /\ IF rxNow - lastRxDecryptErrorTs > RxLogEveryMs
     THEN /\ lastRxDecryptErrorTs' = rxNow
          /\ rxPrevLog' = rxLastLog
          /\ rxLastLog' = rxNow
     ELSE UNCHANGED <<lastRxDecryptErrorTs, rxPrevLog, rxLastLog>>
  /\ UNCHANGED <<rxNow, rxReceiving,
                 kidVars, kdfVars, rsVars, extVars, idVars, httpVars, sessionVars>>

\* cleanup(), from hangup() or ws.onclose: the subscribers are closed and
\* lastRxDecryptErrorTs = 0.
RxCleanup ==
  /\ lastRxDecryptErrorTs' = 0
  /\ rxReceiving' = FALSE
  /\ UNCHANGED <<rxNow, rxPrevLog, rxLastLog,
                 kidVars, kdfVars, rsVars, extVars, idVars, httpVars, sessionVars>>

NextRxLog == RxClockTick \/ RxSubscribed \/ RxDecryptFails \/ RxCleanup

SpecRxLog == InitRxLog /\ [][NextRxLog]_vars

\* C20: a chunk that fails to open is dropped and leaves the session as it
\* was; of the errors it causes at most one is logged per 1000 ms: two
\* successive "RX decrypt" log entries are 1000 ms or more apart.
C20_OneLogPerSecond ==
  rxPrevLog # 0 => rxLastLog - rxPrevLog >= RxLogEveryMs

(***************************************************************************)
(* hkdf as a function of the key material, the label and the length.       *)
(***************************************************************************)
\* the lengths 0..MaxHkLength, and the lengths around MaxHkBlocks blocks
MaxHkLength == 66
MaxHkBlocks == 255

HkLengths ==
  (0..MaxHkLength) \cup {MaxHkBlocks * hashLen, MaxHkBlocks * hashLen + 1}

HkLabels == {labelForSender(1), "k"}

InitHkdf ==
  /\ hkIkm \in {SecretOfEpoch(n) : n \in 1..2}
  /\ hkLabel \in HkLabels
  /\ hkLength \in HkLengths
  /\ hkOut = NULL
  /\ KidIdle /\ KdfIdle /\ ResyncIdle /\ IdIdle /\ HttpIdle /\ RxLogIdle
  /\ SfIdle /\ HdIdle /\ WiIdle /\ SrvIdle /\ SessionIdle

\* out = await hkdf(ikm, label, length)
HkdfCall ==
  /\ hkOut = NULL
  /\ hkOut' = hkdf(hkIkm, hkLabel, hkLength)
  /\ UNCHANGED <<hkIkm, hkLabel, hkLength, sfVars, hdVars, wiVars, oldVars>>

\* the caller drops the result and asks for another length
HkdfAgain ==
  /\ hkOut # NULL
  /\ hkOut' = NULL
  /\ hkLength' \in HkLengths
  /\ UNCHANGED <<hkIkm, hkLabel, sfVars, hdVars, wiVars, oldVars>>

NextHkdf == HkdfCall \/ HkdfAgain

SpecHkdf == InitHkdf /\ [][NextHkdf]_vars

\* The byte at offset k of a byte string: the k - at'th byte of the source of
\* the last part written over k, zero where nothing was written.
ByteAt(bytes, k) ==
  LET over == {p \in 1..Len(bytes.parts) :
                 /\ bytes.parts[p].at <= k
                 /\ k < bytes.parts[p].at + bytes.parts[p].n}
  IN IF over = {} THEN [src |-> [lit |-> 0], idx |-> 0]
     ELSE LET p == CHOOSE q \in over : \A r \in over : r <= q
          IN [src |-> bytes.parts[p].src, idx |-> k - bytes.parts[p].at]

\* a || b
Concat(a, b) ==
  [len |-> a.len + b.len,
   parts |-> a.parts \o [k \in 1..Len(b.parts) |->
                           [b.parts[k] EXCEPT !.at = @ + a.len]]]

\* the one byte i
OneByte(i) == [len |-> 1, parts |-> <<[at |-> 0, src |-> [lit |-> i], n |-> 1]>>]

\* the least n with n * 32 >= length
BlocksFor(length) ==
  CHOOSE n \in 0..length : n * 32 >= length /\ (n = 0 \/ (n - 1) * 32 < length)

\* T(b) = HMAC(PRK, T(b-1) || label || b) with PRK = HMAC(32 zero bytes, ikm),
\* where T(b-1) is the digest the bytes of block b-1 of out come from and
\* T(0) is empty.
BlockT(out, b) ==
  LET prk  == hmacSha256([len |-> 32, parts |-> <<>>], hkIkm)
      prev == IF b = 1 THEN [len |-> 0, parts |-> <<>>]
              ELSE Opaque(ByteAt(out, (b - 2) * 32).src, 32)
  IN hmacSha256(prk, Concat(Concat(prev, utf8Encode(hkLabel)), OneByte(b)))

\* C21: hkdf(ikm, label, length) returns exactly length bytes, the first
\* length bytes of T(1) || T(2) || ... with T(i) = HMAC(PRK, T(i-1) || label
\* || i) and PRK = HMAC(32 zero bytes, ikm), and it writes ceil(length / 32)
\* blocks.
C21_HkdfIsExpandPrefix ==
  hkOut # NULL =>
    /\ hkOut.len = hkLength
    /\ Len(hkOut.parts) = BlocksFor(hkLength)
    /\ \A b \in 1..BlocksFor(hkLength) :
         \A j \in 0..31 :
           (b - 1) * 32 + j < hkLength =>
             ByteAt(hkOut, (b - 1) * 32 + j) = ByteAt(BlockT(hkOut, b), j)

\* the same, for the lengths of at most MaxHkBlocks blocks
C21_UpTo255Blocks ==
  hkLength <= MaxHkBlocks * hashLen => C21_HkdfIsExpandPrefix


(***************************************************************************)
(* The SFrame core behind WasmPeer (sframe_core, compiled to WASM).  Its   *)
(* code is not among the sources; the contexts below follow the design     *)
(* document: sections 4.5 (sender context) and 4.6 (receiver context).     *)
(* A record is its header fields, the key it was sealed under and whether  *)
(* its bytes are the ones the sender produced.                             *)
(***************************************************************************)
\* the replay window W (1024 by default), the number of records sealed
SfWindow == 3
MaxSfRecords == 4

\* 2^64 - 1
Max64 == [i \in 1..NLimbs |-> IF i <= 4 THEN LimbBase - 1 ELSE 0]

SfRoom == BigOfInt(1234)
SfLeaf == BigOfInt(3)
SfFirstEpoch == 7
SfEpochs == {SfFirstEpoch, SfFirstEpoch + 1}

\* a counter a context starts from: 0, or one below the largest
SfStartCounters ==
  {BigZero, [Max64 EXCEPT ![1] = @ - 1]}

\* KID = epoch * R + room * S + leaf * 10 + mediaBit
SfKid(epoch, kind) == LayoutKid(BigOfInt(epoch), SfRoom, SfLeaf, kind)

\* the key material bound to (epoch, leaf)
SfKey(epoch) == [epoch |-> epoch, leaf |-> SfLeaf]

SenderContext(epoch, ctr) ==
  [key |-> SfKey(epoch), kidAudio |-> SfKid(epoch, "audio"),
   kidVideo |-> SfKid(epoch, "video"), ctr |-> ctr]

ReceiverContext(epoch) ==
  [key |-> SfKey(epoch), kidAudio |-> SfKid(epoch, "audio"),
   kidVideo |-> SfKid(epoch, "video"),
   \* largest-seen CTR, and the bitmap: bit i stands for CTR = H - i
   H |-> BigZero, bits |-> [i \in 0..(SfWindow - 1) |-> FALSE]]

\* A seal that keeps the counter where it was.
Seal_NoIncrement(tx, kind) ==
  IF BigLess(Max64, tx.ctr)
  THEN [result |-> "CounterExhausted", record |-> NULL, tx |-> tx]
  ELSE [result |-> "ok",
        record |-> [kid |-> IF kind = "audio" THEN tx.kidAudio ELSE tx.kidVideo,
                    ctr |-> tx.ctr, key |-> tx.key, genuine |-> TRUE],
        tx |-> tx]

\* A seal whose counter is a 64-bit word that wraps.
Seal_Wraps(tx, kind) ==
  [result |-> "ok",
   record |-> [kid |-> IF kind = "audio" THEN tx.kidAudio ELSE tx.kidVideo,
               ctr |-> tx.ctr, key |-> tx.key, genuine |-> TRUE],
   tx |-> [tx EXCEPT !.ctr =
             LET next == BigAdd(@, BigOne)
             IN [i \in 1..NLimbs |-> IF i <= 4 THEN next[i] ELSE 0]]]

\* seal(kind, plaintext), steps 1 to 7: the result, the record and the
\* context afterwards.  The counter of a context whose last counter value
\* has been used stands at 2^64.
Seal(tx, kind) ==
  IF BigLess(Max64, tx.ctr)
  THEN [result |-> "CounterExhausted", record |-> NULL, tx |-> tx]
  ELSE [result |-> "ok",
        record |-> [kid |-> IF kind = "audio" THEN tx.kidAudio ELSE tx.kidVideo,
                    ctr |-> tx.ctr, key |-> tx.key, genuine |-> TRUE],
        tx |-> [tx EXCEPT !.ctr = BigAdd(@, BigOne)]]

\* A KID check that lets every record through.
KidMatches_Always(rx, rec) == TRUE

\* open, step 1: KID = this context's KID (the audio or the video one)
KidMatches(rx, rec) == rec.kid \in {rx.kidAudio, rx.kidVideo}

\* CTR - H when 0 < CTR - H < W, and W when CTR - H >= W
Ahead(ctr, H) ==
  LET ds == {d \in 1..(SfWindow - 1) : BigAdd(H, BigOfInt(d)) = ctr}
  IN IF ds = {} THEN SfWindow ELSE CHOOSE d \in ds : TRUE

\* A window one position narrower.
Behind_Narrow(ctr, H) ==
  LET ds == {d \in 0..(SfWindow - 2) : BigAdd(ctr, BigOfInt(d)) = H}
  IN IF ds = {} THEN SfWindow ELSE CHOOSE d \in ds : TRUE

\* H - CTR when H - W < CTR <= H, and W when CTR <= H - W
Behind(ctr, H) ==
  LET ds == {d \in 0..(SfWindow - 1) : BigAdd(ctr, BigOfInt(d)) = H}
  IN IF ds = {} THEN SfWindow ELSE CHOOSE d \in ds : TRUE

\* A shift that forgets the bits it moves.
Shift_Forgets(bits, d) == [i \in 0..(SfWindow - 1) |-> FALSE]

\* shift bitmap by d
Shift(bits, d) ==
  [i \in 0..(SfWindow - 1) |-> IF i >= d THEN bits[i - d] ELSE FALSE]

\* open, step 2: whether the replay window accepts the CTR provisionally,
\* and the context with the provisional update
Provisional(rx, ctr) ==
  IF BigLess(rx.H, ctr)
  THEN [accept |-> TRUE,
        rx |-> [rx EXCEPT !.H = ctr,
                          !.bits = [Shift(@, Ahead(ctr, rx.H)) EXCEPT ![0] = TRUE]]]
  ELSE LET b == Behind(ctr, rx.H)
       IN IF b < SfWindow /\ ~rx.bits[b]
          THEN [accept |-> TRUE, rx |-> [rx EXCEPT !.bits[b] = TRUE]]
          ELSE [accept |-> FALSE, rx |-> rx]

\* AEAD.open(key, nonce, header, ciphertext || tag) succeeds on the bytes the
\* sender produced under the same key
AeadOpens(rx, rec) == rec.genuine /\ rec.key = rx.key

\* A failed AEAD.open that keeps the provisional update.
AuthFailed_NoUndo(rx, prov) == prov

\* open, step 4, when AEAD.open fails: UNDO the provisional update
AuthFailed(rx, prov) == rx

\* open(record), steps 1 to 5: the result, the context afterwards and
\* whether AEAD.open was called
Open(rx, rec) ==
  IF ~KidMatches(rx, rec)
  THEN [result |-> "WrongKey", rx |-> rx, aead |-> FALSE]
  ELSE LET prov == Provisional(rx, rec.ctr)
       IN IF ~prov.accept
          THEN [result |-> "Replay", rx |-> rx, aead |-> FALSE]
          ELSE IF AeadOpens(rx, rec)
          THEN [result |-> "ok", rx |-> prov.rx, aead |-> TRUE]
          ELSE [result |-> "AuthFailed", rx |-> AuthFailed(rx, prov.rx),
                aead |-> TRUE]

InitSframe ==
  /\ sfTx \in {SenderContext(SfFirstEpoch, c) : c \in SfStartCounters}
  /\ sfRx = ReceiverContext(SfFirstEpoch)
  /\ sfWire = <<>> /\ sfOpened = {} /\ sfLast = NULL
  /\ KidIdle /\ KdfIdle /\ ResyncIdle /\ IdIdle /\ HttpIdle /\ RxLogIdle
  /\ HkIdle /\ HdIdle /\ WiIdle /\ SrvIdle /\ SessionIdle

\* The records sealed in the sender context of key k, in order.
SealedUnder(wire, k) == SelectSeq(wire, LAMBDA r : r.key = k)

\* The sender seals a frame of some kind.
SfSeal ==
  \E kind \in MediaKinds :
    LET s == Seal(sfTx, kind)
    IN /\ Len(sfWire) < MaxSfRecords
       /\ sfTx' = s.tx
       /\ sfWire' = IF s.result = "ok" THEN Append(sfWire, s.record) ELSE sfWire
       /\ sfLast' = [op |-> "seal", kind |-> kind, result |-> s.result,
                     record |-> s.record, ctrBefore |-> sfTx.ctr,
                     sealedBefore |-> Len(SealedUnder(sfWire, sfTx.key))]
       /\ UNCHANGED <<sfRx, sfOpened, hkVars, hdVars, wiVars, oldVars>>

\* A new epoch is installed for the local participant: a new sender context.
SfInstallSender ==
  /\ sfTx.key.epoch = SfFirstEpoch
  /\ sfTx' = SenderContext(SfFirstEpoch + 1, BigZero)
  /\ sfLast' = NULL
  /\ UNCHANGED <<sfRx, sfWire, sfOpened, hkVars, hdVars, wiVars, oldVars>>

\* The remote sender is observed in the new epoch: a new receiver context.
SfInstallReceiver ==
  /\ sfRx.key.epoch = SfFirstEpoch
  /\ sfRx' = ReceiverContext(SfFirstEpoch + 1)
  /\ sfOpened' = {}
  /\ sfLast' = NULL
  /\ UNCHANGED <<sfTx, sfWire, hkVars, hdVars, wiVars, oldVars>>

\* The receiver context opens a record that arrives: one of the records
\* sealed, as sealed or with a bit of its ciphertext or tag flipped.
SfOpen ==
  \E i \in 1..Len(sfWire), genuine \in BOOLEAN :
    LET rec == [sfWire[i] EXCEPT !.genuine = genuine]
        o   == Open(sfRx, rec)
    IN /\ sfRx' = o.rx
       /\ sfOpened' = IF o.result = "ok" THEN sfOpened \cup {rec} ELSE sfOpened
       /\ sfLast' = [op |-> "open", record |-> rec, result |-> o.result,
                     aead |-> o.aead, rxBefore |-> sfRx,
                     openedBefore |-> sfOpened]
       /\ UNCHANGED <<sfTx, sfWire, hkVars, hdVars, wiVars, oldVars>>

NextSframe == SfSeal \/ SfInstallSender \/ SfInstallReceiver \/ SfOpen

SpecSframe == InitSframe /\ [][NextSframe]_vars

\* b - a is one of 1..W-1
CloseBelow(a, b) == \E d \in 1..(SfWindow - 1) : BigAdd(a, BigOfInt(d)) = b

\* C23: within one sender context the counters of the records sealed are
\* strictly increasing: a successful seal uses the current counter and then
\* adds 1 to it, whatever the media kind of the frame.
C23_CounterStrictlyIncreases ==
  /\ \A e \in SfEpochs :
       LET sq == SealedUnder(sfWire, SfKey(e))
       IN \A i \in 1..Len(sq), j \in 1..Len(sq) :
            i < j => BigLess(sq[i].ctr, sq[j].ctr)
  /\ (sfLast # NULL /\ sfLast.op = "seal" /\ sfLast.result = "ok") =>
       /\ sfLast.record.ctr = sfLast.ctrBefore
       /\ sfTx.ctr = BigAdd(sfLast.ctrBefore, BigOne)

\* a seal of one kind right after a seal of the other kind in the same context
C23_SealsOfBothKinds ==
  /\ sfLast # NULL /\ sfLast.op = "seal" /\ sfLast.result = "ok"
  /\ sfLast.sealedBefore >= 1
  /\ SealedUnder(sfWire, sfTx.key)[sfLast.sealedBefore].kid # sfLast.record.kid

\* C24: a record the receiver context has accepted once fails with Replay
\* on every later open in that context, whatever was opened in between.
C24_ReplayRejected ==
  (sfLast # NULL /\ sfLast.op = "open" /\ sfLast.record \in sfLast.openedBefore)
    => sfLast.result = "Replay"

\* a second open of a record, after another record was accepted too
C24_ReplayAfterOthers ==
  /\ sfLast # NULL /\ sfLast.op = "open"
  /\ sfLast.record \in sfLast.openedBefore
  /\ Cardinality(sfLast.openedBefore) >= 2
  /\ sfLast.result = "Replay"

\* No accepted record of the set has the counter ctr, and ctr is less than
\* W below every larger counter accepted.
StillOpenable(ctr, opened) ==
  \A r \in opened :
    /\ r.ctr # ctr
    /\ BigLess(ctr, r.ctr) => CloseBelow(ctr, r.ctr)

\* C25: an open that fails authentication leaves the largest-seen CTR and
\* the replay bitmap as they were, so that the genuine record of a counter
\* is accepted whatever forgeries were offered before it.
C25_AuthFailureLeavesWindow ==
  (sfLast # NULL /\ sfLast.op = "open") =>
    /\ sfLast.result = "AuthFailed" => sfRx = sfLast.rxBefore
    /\ ( /\ sfLast.record.genuine
         /\ sfLast.record.key = sfLast.rxBefore.key
         /\ StillOpenable(sfLast.record.ctr, sfLast.openedBefore) )
       => sfLast.result = "ok"

\* a forged record ahead of everything seen has just failed authentication
C25_ForgeryAheadOfWindow ==
  /\ sfLast # NULL /\ sfLast.op = "open"
  /\ sfLast.result = "AuthFailed"
  /\ sfLast.openedBefore # {}
  /\ BigLess(sfLast.rxBefore.H, sfLast.record.ctr)

\* C26: records of W contiguous counters delivered to a fresh receiver
\* context in any order are each opened: a record not opened before, whose
\* counter and the counters opened so far lie within W contiguous values,
\* opens.
C26_ReorderingTolerance ==
  ( /\ sfLast # NULL /\ sfLast.op = "open"
    /\ sfLast.record.genuine
    /\ sfLast.record.key = sfLast.rxBefore.key
    /\ sfLast.record \notin sfLast.openedBefore
    /\ \A a \in sfLast.openedBefore \cup {sfLast.record},
          b \in sfLast.openedBefore \cup {sfLast.record} :
         BigLess(a.ctr, b.ctr) => CloseBelow(a.ctr, b.ctr) )
  => sfLast.result = "ok"

\* W records of contiguous counters are opened, the lowest of them last
C26_LowestDeliveredLast ==
  /\ sfLast # NULL /\ sfLast.op = "open" /\ sfLast.result = "ok"
  /\ Cardinality(sfOpened) = SfWindow
  /\ Cardinality(sfLast.openedBefore) = SfWindow - 1
  /\ \A r \in sfLast.openedBefore :
       /\ BigLess(sfLast.record.ctr, r.ctr)
       /\ CloseBelow(sfLast.record.ctr, r.ctr)

\* C27: with the counter at 2^64 - 1 one seal succeeds; the seal after it
\* fails with CounterExhausted and emits no record; a failed seal leaves the
\* counter unchanged, and no counter value is used twice in a context.
C27_CounterExhaustion ==
  /\ (sfLast # NULL /\ sfLast.op = "seal") =>
       LET sq == SealedUnder(sfWire, sfTx.key)
       IN /\ sfLast.ctrBefore = Max64 =>
               sfLast.result = "ok" /\ sfLast.record.ctr = Max64
          /\ (sfLast.sealedBefore >= 1 /\ sq[sfLast.sealedBefore].ctr = Max64) =>
               sfLast.result = "CounterExhausted"
          /\ sfLast.result = "CounterExhausted" =>
               /\ sfLast.record = NULL
               /\ Len(sq) = sfLast.sealedBefore
               /\ sfTx.ctr = sfLast.ctrBefore
  /\ \A i \in 1..Len(sfWire), j \in 1..Len(sfWire) :
       (i # j /\ sfWire[i].key = sfWire[j].key) => sfWire[i].ctr # sfWire[j].ctr

\* the seal after the one that used 2^64 - 1 has failed
C27_SealAfterLastCounter ==
  /\ sfLast # NULL /\ sfLast.op = "seal"
  /\ sfLast.result = "CounterExhausted"
  /\ sfLast.sealedBefore >= 1
  /\ SealedUnder(sfWire, sfTx.key)[sfLast.sealedBefore].ctr = Max64

\* C28: a receiver context installed for an epoch rejects a record whose
\* KID encodes another epoch with WrongKey, from the header and before any
\* AEAD call, and it does not answer WrongKey to records of its own epoch.
C28_OtherEpochIsWrongKey ==
  (sfLast # NULL /\ sfLast.op = "open") =>
    /\ sfLast.record.key.epoch # sfLast.rxBefore.key.epoch =>
         /\ sfLast.result = "WrongKey"
         /\ ~sfLast.aead
         /\ sfRx = sfLast.rxBefore
    /\ sfLast.record.key.epoch = sfLast.rxBefore.key.epoch =>
         sfLast.result # "WrongKey"

\* the receiver context of the second epoch has opened a record of its
\* epoch and has just refused a record of the first epoch
C28_OldEpochRecordRefused ==
  /\ sfLast # NULL /\ sfLast.op = "open"
  /\ sfLast.rxBefore.key.epoch = SfFirstEpoch + 1
  /\ sfLast.record.key.epoch = SfFirstEpoch
  /\ sfLast.record.genuine
  /\ sfLast.result = "WrongKey"
  /\ sfOpened # {}

(***************************************************************************)
(* The SFrame header: the wire layout the core writes (design document,    *)
(* section 4.3; the encoder is in sframe_core) and the parser of the       *)
(* client, inspectSframePacket.  A KID or CTR below 2^32 is its big-endian *)
(* bytes without leading zero bytes; a packet is a sequence of bytes.      *)
(***************************************************************************)
\* 0, 1, 255, 256, 65535, 65536, 2^31 - 1, 2^31, 2^32 - 1
HdValues ==
  {<<0>>, <<1>>, <<255>>, <<1, 0>>, <<255, 255>>, <<1, 0, 0>>,
   <<127, 255, 255, 255>>, <<128, 0, 0, 0>>, <<255, 255, 255, 255>>}

\* the lengths of the plaintexts sealed
HdPlainLengths == {0, 5}

\* byte 0 = 1 X X X K K C C, then KK+1 bytes of KID, then CC+1 bytes of CTR,
\* most-significant byte first
EncodeHeader(kid, ctr) ==
  <<128 + (Len(kid) - 1) * 4 + (Len(ctr) - 1)>> \o kid \o ctr

\* header || ciphertext || 16-byte tag, for a plaintext of n bytes
SframePacket(kid, ctr, n) == EncodeHeader(kid, ctr) \o [i \in 1..(n + 16) |-> 0]

\* (ctr << 8) | b on a 32-bit integer: the low 24 bits move up, the result
\* is read as a signed 32-bit value
ShlOr8(ctr, b) ==
  LET u   == ctr % Pow2(24)
      top == u \div Pow2(16)
      low == (u % Pow2(16)) * 256 + b
  IN IF top >= 128 THEN (top - 256) * Pow2(24) + low ELSE top * Pow2(24) + low

\* for (let i = 0; i < ctr_len_bytes; i++) ctr = (ctr << 8) | buf[2 + i]
RECURSIVE ReadCtr(_, _, _, _)
ReadCtr(buf, ctr_len_bytes, i, ctr) ==
  IF i >= ctr_len_bytes THEN ctr
  ELSE ReadCtr(buf, ctr_len_bytes, i + 1, ShlOr8(ctr, buf[2 + i + 1]))

\* inspectSframePacket(direction, kind, buf): what it hands to
\* Output.sframeHeader (without header_hex), or that it returned before
inspectSframePacket(buf) ==
  IF Len(buf) < 3 THEN [reported |-> FALSE]
  ELSE LET h0            == buf[1]
           kid_len_bytes == 1
           ctr_len_bytes == (h0 % 4) + 1
           header_len    == 1 + kid_len_bytes + ctr_len_bytes
       IN IF Len(buf) < header_len THEN [reported |-> FALSE]
          ELSE LET total_len == Len(buf)
                   tag_len   == IF total_len > header_len THEN 16 ELSE 0
                   body      == total_len - header_len
                   ct_len    == IF body >= tag_len THEN body - tag_len ELSE body
               IN [reported |-> TRUE,
                   kid |-> buf[2], kid_len_bytes |-> kid_len_bytes,
                   ctr |-> ReadCtr(buf, ctr_len_bytes, 0, 0),
                   ctr_len_bytes |-> ctr_len_bytes,
                   aad_len |-> header_len, ct_len |-> ct_len,
                   tag_len |-> tag_len, total_len |-> total_len]

InitHeader ==
  /\ hdKid \in HdValues /\ hdCtr \in HdValues
  /\ hdBuf = NULL /\ hdInfo = NULL
  /\ KidIdle /\ KdfIdle /\ ResyncIdle /\ IdIdle /\ HttpIdle /\ RxLogIdle
  /\ HkIdle /\ SfIdle /\ WiIdle /\ SrvIdle /\ SessionIdle

\* The core seals a frame under (KID, CTR).
HdSeal ==
  /\ hdBuf = NULL
  /\ \E n \in HdPlainLengths : hdBuf' = SframePacket(hdKid, hdCtr, n)
  /\ UNCHANGED <<hdKid, hdCtr, hdInfo, hkVars, sfVars, wiVars, oldVars>>

\* The transform hands the packet to inspectSframePacket.
HdInspect ==
  /\ hdBuf # NULL /\ hdInfo = NULL
  /\ hdInfo' = inspectSframePacket(hdBuf)
  /\ UNCHANGED <<hdKid, hdCtr, hdBuf, hkVars, sfVars, wiVars, oldVars>>

NextHeader == HdSeal \/ HdInspect

SpecHeader == InitHeader /\ [][NextHeader]_vars

\* The value of at most 4 big-endian bytes, when it is below 2^31.
RECURSIVE BytesValue(_, _)
BytesValue(bytes, n) ==
  IF n = 0 THEN 0 ELSE BytesValue(bytes, n - 1) * 256 + bytes[n]

\* The number a script holds after 32-bit operations is the value of bytes.
SameNumber(x, bytes) ==
  /\ ~(Len(bytes) = 4 /\ bytes[1] >= 128)
  /\ x = BytesValue(bytes, Len(bytes))

\* C29: for every kid < 2^32 and ctr < 2^32 encoded per the wire layout,
\* inspectSframePacket reports the same kid, the same ctr and the header
\* length 1 + (KK+1) + (CC+1).
C29_DecodeInvertsEncode ==
  hdInfo # NULL =>
    /\ hdInfo.reported
    /\ SameNumber(hdInfo.kid, hdKid)
    /\ SameNumber(hdInfo.ctr, hdCtr)
    /\ hdInfo.aad_len = 1 + Len(hdKid) + Len(hdCtr)

\* the same for the KIDs of one byte and the counters below 2^31
C29_OneByteKid ==
  (Len(hdKid) = 1 /\ ~(Len(hdCtr) = 4 /\ hdCtr[1] >= 128))
    => C29_DecodeInvertsEncode

(***************************************************************************)
(* initSFrame (sframe_layer.js) under concurrent callers.  The body of an  *)
(* async function runs to its first await in one turn of the event loop,   *)
(* and the callers awaiting a promise settle in the microtasks of the turn *)
(* that settles it; so a call, the end of an attempt and the end of the    *)
(* bootstrap module's own load are one action each.  An attempt is the     *)
(* promise of one run of the inner async function around initWasm().       *)
(***************************************************************************)
MaxWiCallers == 3

MaxWiAttempts == 3

WiCallerIds == 1..MaxWiCallers

IdleCaller == [st |-> "idle", on |-> 0]

\* which of the three cases of initSFrame a call takes
initSFrameCase(SFRAME, initPromise) ==
  IF SFRAME THEN 1 ELSE IF initPromise # 0 THEN 2 ELSE 3

\* what a caller awaiting a promise in state p sees
Awaiting(p) == IF p = "pending" THEN "waiting" ELSE p

\* the callers awaiting attempt k settle as the attempt did
SettleCallers(callers, k, how) ==
  [c \in DOMAIN callers |->
     IF callers[c].st = "waiting" /\ callers[c].on = k
     THEN [callers[c] EXCEPT !.st = how] ELSE callers[c]]

OnInitFailed_Keeps(initPromise) == initPromise

\* catch (e) { ...; initPromise = null; throw e; }
OnInitFailed(initPromise) == 0

InitWasmInit ==
  /\ wiSframe = FALSE /\ wiPromise = 0 /\ wiAttempts = <<>>
  /\ wiCallers = [c \in WiCallerIds |-> IdleCaller]
  /\ wiLast = NULL
  /\ wiBoot \in {"absent", "loading"}
  /\ KidIdle /\ KdfIdle /\ ResyncIdle /\ IdIdle /\ HttpIdle /\ RxLogIdle
  /\ HkIdle /\ SfIdle /\ HdIdle /\ SrvIdle /\ SessionIdle

\* Caller c calls initSFrame() and awaits what it returns.
WiCall(c) ==
  /\ wiCallers[c].st = "idle"
  /\ LET kase  == initSFrameCase(wiSframe, wiPromise)
         fresh == Len(wiAttempts) + 1
     IN /\ kase = 3 => Len(wiAttempts) < MaxWiAttempts
        /\ wiAttempts' = IF kase = 3 THEN Append(wiAttempts, "pending")
                         ELSE wiAttempts
        /\ wiPromise' = IF kase = 3 THEN fresh ELSE wiPromise
        /\ wiCallers' =
             [wiCallers EXCEPT ![c] =
                CASE kase = 1 -> [st |-> "resolved", on |-> 0]
                  [] kase = 2 -> [st |-> Awaiting(wiAttempts[wiPromise]),
                                  on |-> wiPromise]
                  [] OTHER    -> [st |-> "waiting", on |-> fresh]]
        /\ wiLast' = [caller |-> c, kase |-> kase, SFRAME |-> wiSframe,
                      before |-> wiAttempts,
                      started |-> IF kase = 3 THEN fresh ELSE 0]
  /\ UNCHANGED <<wiSframe, wiBoot, hkVars, sfVars, hdVars, oldVars>>

\* initWasm() of attempt k resolves: window.SFRAME is set, the attempt's
\* promise resolves.
WiLoaded ==
  \E k \in DOMAIN wiAttempts :
    /\ wiAttempts[k] = "pending"
    /\ wiSframe' = TRUE
    /\ wiAttempts' = [wiAttempts EXCEPT ![k] = "resolved"]
    /\ wiCallers' = SettleCallers(wiCallers, k, "resolved")
    /\ UNCHANGED <<wiPromise, wiLast, wiBoot, hkVars, sfVars, hdVars, oldVars>>

\* initWasm() of attempt k rejects: the catch block runs and rethrows.
WiFailed ==
  \E k \in DOMAIN wiAttempts :
    /\ wiAttempts[k] = "pending"
    /\ wiPromise' = OnInitFailed(wiPromise)
    /\ wiAttempts' = [wiAttempts EXCEPT ![k] = "rejected"]
    /\ wiCallers' = SettleCallers(wiCallers, k, "rejected")
    /\ UNCHANGED <<wiSframe, wiLast, wiBoot, hkVars, sfVars, hdVars, oldVars>>

\* Caller c goes on after its await and may call again later.
WiReturn(c) ==
  /\ wiCallers[c].st \in {"resolved", "rejected"}
  /\ wiCallers' = [wiCallers EXCEPT ![c] = IdleCaller]
  /\ UNCHANGED <<wiSframe, wiPromise, wiAttempts, wiLast, wiBoot,
                 hkVars, sfVars, hdVars, oldVars>>

\* bootstrap_sframe.js, when the page imports it: its own init() resolves.
WiBootLoaded ==
  /\ wiBoot = "loading"
  /\ wiBoot' = "done"
  /\ wiSframe' = TRUE
  /\ UNCHANGED <<wiPromise, wiAttempts, wiCallers, wiLast,
                 hkVars, sfVars, hdVars, oldVars>>

\* Its init() rejects: window.SFRAME stays as it was.
WiBootFailed ==
  /\ wiBoot = "loading"
  /\ wiBoot' = "failed"
  /\ UNCHANGED <<wiSframe, wiPromise, wiAttempts, wiCallers, wiLast,
                 hkVars, sfVars, hdVars, oldVars>>

NextWasmInit ==
  \/ \E c \in WiCallerIds : WiCall(c)
  \/ WiLoaded
  \/ WiFailed
  \/ \E c \in WiCallerIds : WiReturn(c)
  \/ WiBootLoaded
  \/ WiBootFailed

SpecWasmInit == InitWasmInit /\ [][NextWasmInit]_vars

\* C30: initSFrame is idempotent under concurrent calls.  Whatever the
\* interleaving of the callers, (1) every attempt but the latest has failed,
\* so initWasm is started at most once unless a previous attempt failed;
\* (2) a caller whose await resolved finds window.SFRAME set; (3) a call made
\* while window.SFRAME is unset and the latest attempt has failed starts a
\* fresh attempt.
C30_InitIsIdempotent ==
  /\ \A k \in DOMAIN wiAttempts :
       k < Len(wiAttempts) => wiAttempts[k] = "rejected"
  /\ \A c \in DOMAIN wiCallers : wiCallers[c].st = "resolved" => wiSframe
  /\ (/\ wiLast # NULL
      /\ ~wiLast.SFRAME
      /\ wiLast.before # <<>>
      /\ wiLast.before[Len(wiLast.before)] = "rejected")
       => wiLast.started = Len(wiLast.before) + 1

\* two callers shared the attempt started after a failed one, and it loaded
C30_SharedRetryLoaded ==
  /\ Len(wiAttempts) >= 2
  /\ wiAttempts[1] = "rejected"
  /\ wiAttempts[Len(wiAttempts)] = "resolved"
  /\ wiBoot # "done"
  /\ \E c, d \in DOMAIN wiCallers :
       /\ c # d
       /\ wiCallers[c].st = "resolved" /\ wiCallers[c].on = Len(wiAttempts)
       /\ wiCallers[d].st = "resolved" /\ wiCallers[d].on = Len(wiAttempts)

(***************************************************************************)
(* The signalling relay (the WebSocket server on port 3001).  A connection *)
(* is a number; the data of a message is the number of the message.        *)
(***************************************************************************)
MaxRelayConns == 2

MaxRelayMsgs == 3

RelayConns == 1..MaxRelayConns

RelayRoomIds == {"a", "b"}

\* the type of a message: the four the relay knows, and any other
RelayTypes == {"join", "offer", "candidate", "answer", "other"}

\* rooms.set(room, { peers: new Set(), lastOffer: null, pendingCandidates: [] })
\* when the room is absent (lastOffer 0 is null)
ensureRoom(rooms, rid) ==
  IF rooms[rid] # NULL THEN rooms
  ELSE [rooms EXCEPT ![rid] =
          [peers |-> {}, lastOffer |-> 0, pendingCandidates |-> <<>>]]

\* send(ws, obj) sends on an open socket only
send(out, conn, obj) ==
  IF rlConns[conn] = "open" THEN [out EXCEPT ![conn] = Append(@, obj)] ELSE out

\* for (const cand of r.pendingCandidates) send(ws, { type: "candidate", data: cand })
RECURSIVE SendCandidates(_, _, _, _)
SendCandidates(out, conn, cands, k) ==
  IF k > Len(cands) THEN out
  ELSE SendCandidates(send(out, conn, [type |-> "candidate", data |-> cands[k]]),
                      conn, cands, k + 1)

\* for (const peer of r.peers) if (peer !== ws) send(peer, { type, data })
Forward(out, peers, conn, obj) ==
  [c \in DOMAIN out |-> IF c \in peers /\ c # conn THEN send(out, c, obj)[c] ELSE out[c]]

\* ws.on("close"): the socket leaves every room it is a peer of; a room left
\* without peers is deleted
LeaveRooms(rooms, conn) ==
  [rid \in DOMAIN rooms |->
     IF rooms[rid] = NULL \/ conn \notin rooms[rid].peers THEN rooms[rid]
     ELSE IF rooms[rid].peers = {conn} THEN NULL
     ELSE [rooms[rid] EXCEPT !.peers = @ \ {conn}]]

InitRelay ==
  /\ rlConns = [c \in RelayConns |-> "none"]
  /\ rlRooms = [rid \in RelayRoomIds |-> NULL]
  /\ rlOut = [c \in RelayConns |-> <<>>]
  /\ rlSeq = 0
  /\ KidIdle /\ KdfIdle /\ ResyncIdle /\ IdIdle /\ HttpIdle /\ RxLogIdle
  /\ HkIdle /\ SfIdle /\ HdIdle /\ WiIdle /\ PxIdle /\ SessionIdle

\* wss.on("connection")
RlConnect(conn) ==
  /\ rlConns[conn] = "none"
  /\ rlConns' = [rlConns EXCEPT ![conn] = "open"]
  /\ UNCHANGED <<rlRooms, rlOut, rlSeq, pxVars, clientVars>>

\* ws.on("message") with a message that cannot be parsed or names no room
RlMessageNoRoom(conn) ==
  /\ rlConns[conn] = "open"
  /\ rlSeq < MaxRelayMsgs
  /\ rlSeq' = rlSeq + 1
  /\ UNCHANGED <<rlConns, rlRooms, rlOut, pxVars, clientVars>>

\* ws.on("message") with { room, type, data }
RlMessage(conn, rid, type) ==
  LET data  == rlSeq + 1
      rooms == ensureRoom(rlRooms, rid)
      r     == rooms[rid]
  IN /\ rlConns[conn] = "open"
     /\ rlSeq < MaxRelayMsgs
     /\ rlSeq' = data
     /\ CASE type = "join" ->
               /\ rlRooms' = [rooms EXCEPT ![rid].peers = @ \cup {conn}]
               /\ rlOut' = IF r.lastOffer # 0
                           THEN SendCandidates(
                                  send(rlOut, conn, [type |-> "offer", data |-> r.lastOffer]),
                                  conn, r.pendingCandidates, 1)
                           ELSE rlOut
          [] type = "offer" ->
               /\ rlRooms' = [rooms EXCEPT ![rid].lastOffer = data]
               /\ rlOut' = Forward(rlOut, r.peers, conn, [type |-> type, data |-> data])
          [] type = "candidate" ->
               /\ rlRooms' = [rooms EXCEPT ![rid].pendingCandidates = Append(@, data)]
               /\ rlOut' = Forward(rlOut, r.peers, conn, [type |-> type, data |-> data])
          [] type = "answer" ->
               /\ rlRooms' = rooms
               /\ rlOut' = Forward(rlOut, r.peers, conn, [type |-> type, data |-> data])
          [] OTHER ->
               /\ rlRooms' = rooms
               /\ rlOut' = rlOut
     /\ UNCHANGED <<rlConns, pxVars, clientVars>>

\* ws.on("close")
RlClose(conn) ==
  /\ rlConns[conn] = "open"
  /\ rlConns' = [rlConns EXCEPT ![conn] = "closed"]
  /\ rlRooms' = LeaveRooms(rlRooms, conn)
  /\ UNCHANGED <<rlOut, rlSeq, pxVars, clientVars>>

NextRelay ==
  \/ \E conn \in RelayConns : RlConnect(conn)
  \/ \E conn \in RelayConns : RlMessageNoRoom(conn)
  \/ \E conn \in RelayConns, rid \in RelayRoomIds, type \in RelayTypes :
       RlMessage(conn, rid, type)
  \/ \E conn \in RelayConns : RlClose(conn)

SpecRelay == InitRelay /\ [][NextRelay]_vars

\* C38: every room present in the rooms map has at least one connected
\* peer.
C38_NoEmptyRoom ==
  \A rid \in DOMAIN rlRooms :
    rlRooms[rid] # NULL
      => \E conn \in rlRooms[rid].peers : rlConns[conn] = "open"

\* the peers of a room are connected, and a room that has had a peer is
\* deleted with its last peer
C38_PeersAreConnected ==
  \A rid \in DOMAIN rlRooms :
    rlRooms[rid] # NULL
      => \A conn \in rlRooms[rid].peers : rlConns[conn] = "open"

(***************************************************************************)
(* The Janus proxy of secure.server.js: one browser connection and the     *)
(* upstream socket opened for it.  A socket is CONNECTING, OPEN, CLOSING   *)
(* or CLOSED as its readyState says; the text of a message is its number.  *)
(* The upstream socket becomes OPEN in the task that emits its open event, *)
(* and a socket is CLOSING from its error event, or from its close frame,  *)
(* until its close event.                                                  *)
(***************************************************************************)
MaxPxMsgs == 3

MaxPxReplies == 1

\* the texts of the messages the browser socket delivered
PxTexts(received) == [k \in 1..Len(received) |-> received[k].text]

\* janusWs.readyState === WebSocket.OPEN && janusOpen
JanusReady(readyState, janusOpen) == readyState = "open" /\ janusOpen

flush_None(toJanus, pendingToJanus) == toJanus

\* pendingToJanus.forEach((msg) => janusWs.send(msg))
flush(toJanus, pendingToJanus) == toJanus \o pendingToJanus

\* wssJanus.on("connection"): the upstream socket is created, nothing is
\* queued
InitProxy ==
  /\ pxClient = "open"
  /\ pxClientOpen = TRUE
  /\ pxJanus = "connecting"
  /\ pxJanusOpen = FALSE
  /\ pxPending = <<>>
  /\ pxToJanus = <<>>
  /\ pxToClient = 0
  /\ pxReceived = <<>>
  /\ KidIdle /\ KdfIdle /\ ResyncIdle /\ IdIdle /\ HttpIdle /\ RxLogIdle
  /\ HkIdle /\ SfIdle /\ HdIdle /\ WiIdle /\ RlIdle /\ SessionIdle

\* janusWs.on("open")
PxJanusOpen ==
  /\ pxJanus = "connecting"
  /\ pxJanus' = "open"
  /\ pxJanusOpen' = TRUE
  /\ pxToJanus' = flush(pxToJanus, pxPending)
  /\ pxPending' = <<>>
  /\ UNCHANGED <<pxClient, pxClientOpen, pxToClient, pxReceived, rlVars, clientVars>>

\* janusWs.on("message")
PxJanusMessage ==
  /\ pxJanus = "open"
  /\ pxToClient < MaxPxReplies
  /\ pxToClient' = IF pxClientOpen THEN pxToClient + 1 ELSE pxToClient
  /\ UNCHANGED <<pxClient, pxClientOpen, pxJanus, pxJanusOpen, pxPending,
                 pxToJanus, pxReceived, rlVars, clientVars>>

\* Janus sends its close frame: the upstream socket is CLOSING until its
\* close event
PxJanusClosing ==
  /\ pxJanus = "open"
  /\ pxJanus' = "closing"
  /\ UNCHANGED <<pxClient, pxClientOpen, pxJanusOpen, pxPending, pxToJanus,
                 pxToClient, pxReceived, rlVars, clientVars>>

\* janusWs.on("error"): the connection attempt failed, or the open socket
\* failed
PxJanusError ==
  /\ pxJanus \in {"connecting", "open"}
  /\ pxJanus' = "closing"
  /\ pxClient' = IF pxClientOpen /\ pxClient = "open" THEN "closing" ELSE pxClient
  /\ UNCHANGED <<pxClientOpen, pxJanusOpen, pxPending, pxToJanus, pxToClient,
                 pxReceived, rlVars, clientVars>>

\* janusWs.on("close")
PxJanusClose ==
  /\ pxJanus = "closing"
  /\ pxJanus' = "closed"
  /\ pxJanusOpen' = FALSE
  /\ pxClient' = IF pxClientOpen /\ pxClient = "open" THEN "closing" ELSE pxClient
  /\ UNCHANGED <<pxClientOpen, pxPending, pxToJanus, pxToClient, pxReceived,
                 rlVars, clientVars>>

\* clientWs.on("message")
PxClientMessage ==
  LET text == Len(pxReceived) + 1
      now  == JanusReady(pxJanus, pxJanusOpen)
  IN /\ pxClient = "open"
     /\ Len(pxReceived) < MaxPxMsgs
     /\ pxReceived' = Append(pxReceived, [text |-> text, queued |-> ~now])
     /\ IF now
        THEN pxToJanus' = Append(pxToJanus, text) /\ pxPending' = pxPending
        ELSE pxPending' = Append(pxPending, text) /\ pxToJanus' = pxToJanus
     /\ UNCHANGED <<pxClient, pxClientOpen, pxJanus, pxJanusOpen, pxToClient,
                    rlVars, clientVars>>

\* clientWs.on("close"): the browser closed the connection, or the close
\* the proxy asked for has completed
PxClientClose ==
  /\ pxClient \in {"open", "closing"}
  /\ pxClient' = "closed"
  /\ pxClientOpen' = FALSE
  /\ pxJanus' = IF JanusReady(pxJanus, pxJanusOpen) THEN "closing" ELSE pxJanus
  /\ UNCHANGED <<pxJanusOpen, pxPending, pxToJanus, pxToClient, pxReceived,
                 rlVars, clientVars>>

\* clientWs.on("error")
PxClientError ==
  /\ pxClient = "open"
  /\ pxClient' = "closing"
  /\ pxClientOpen' = FALSE
  /\ pxJanus' = IF JanusReady(pxJanus, pxJanusOpen) THEN "closing" ELSE pxJanus
  /\ UNCHANGED <<pxJanusOpen, pxPending, pxToJanus, pxToClient, pxReceived,
                 rlVars, clientVars>>

NextProxy ==
  \/ PxJanusOpen \/ PxJanusMessage \/ PxJanusClosing \/ PxJanusError
  \/ PxJanusClose \/ PxClientMessage \/ PxClientClose \/ PxClientError

SpecProxy == InitProxy /\ [][NextProxy]_vars

\* C39: every message the browser sent while its connection was open is
\* delivered to Janus exactly once and in the order it was sent: once the
\* connection is over, what was sent to Janus is what the browser sent.
C39_EveryMessageDelivered ==
  (pxClient = "closed" /\ pxJanus # "connecting")
    => pxToJanus = PxTexts(pxReceived)

\* C39, amended: what was sent to Janus followed by what is still queued is
\* what the browser sent, each message once and in order, and nothing is
\* queued while the upstream socket is open; a message stays queued only
\* when the upstream socket never opened or was no longer open when the
\* message arrived.
C39_DeliveredOnceOpen ==
  /\ pxToJanus \o pxPending = PxTexts(pxReceived)
  /\ pxJanus = "open" => pxPending = <<>>

\* two messages were queued before the upstream socket opened, a third came
\* after, and all three are at Janus in order
C39_QueuedThenSent ==
  /\ pxJanus = "open"
  /\ Len(pxReceived) = 3
  /\ pxReceived[1].queued /\ pxReceived[2].queued /\ ~pxReceived[3].queued
  /\ pxToJanus = <<1, 2, 3>>

\* C40: once the browser socket has closed or failed, no queued message is
\* sent to Janus.
C40_NothingSentAfterBrowserLeft ==
  [][~pxClientOpen => pxToJanus' = pxToJanus]_vars

\* C40: once the browser socket has closed, the upstream socket is not
\* open: the proxy has closed it.
C40_UpstreamClosedWithBrowser ==
  ~(pxClient = "closed" /\ pxJanus = "open")

(***************************************************************************)
(* Properties of the session.                                              *)
(***************************************************************************)
\* C1: every chunk a sender transform forwards is the SFrame record its TX
\* context produced; the cleartext chunk is never forwarded.
C1_OnlySFrameForwarded ==
  lastTx # NULL =>
    /\ lastTx.peer # NULL
    /\ lastTx.data = PeerEncrypt(lastTx.peer, lastTx.kind)

\* C2: a receiver transform enqueues a chunk only when the subscriber has a
\* receiver context and its decrypt call returned, and then enqueues what
\* the call returned; a chunk that arrives without a context or whose
\* decryption throws is dropped, never passed on as received.
C2_EnqueueOnlyDecrypted ==
  lastRx # NULL =>
    /\ lastRx.enqueue =>
         /\ lastRx.peer # NULL /\ ~lastRx.throws
         /\ lastRx.data = PeerDecrypt(lastRx.peer, lastRx.kind)
         /\ lastRx.data # lastRx.chunk
    /\ (lastRx.peer = NULL \/ lastRx.throws) => ~lastRx.enqueue

C2_DecryptThrew ==
  /\ lastRx # NULL
  /\ ~lastRx.sync
  /\ lastRx.peer # NULL
  /\ lastRx.throws
  /\ ~lastRx.enqueue

\* The contexts that exist: the TX peers and the RX peers.
AllPeers ==
  {txRefs[i] : i \in {j \in DOMAIN txRefs : txRefs[j] # NULL}}
    \cup {subObjs[o].peer : o \in {j \in DOMAIN subObjs : subObjs[j].peer # NULL}}

\* C6: in every context the video KID is the audio KID plus exactly 1, and
\* the audio KID is computeKid of the context's epoch, room and leaf.
C6_VideoKidIsAudioKidPlusOne ==
  \A peer \in AllPeers :
    /\ peer.kidAudio = computeKid(peer.forEpoch, room, BigOfInt(peer.forIndex))
    /\ peer.kidVideo = BigAdd(peer.kidAudio, BigOne)

\* C9: when maybeResyncMls has learned a new epoch and returns (the key-sync
\* flag is cleared), the sender context, if this page has one, and the
\* receiver context of every subscriber whose display carries a leaf index
\* are those of the new epoch.
C9_RekeyInstallsNewEpoch ==
  [][ ( /\ \E p \in DOMAIN procs :
             procs[p].k = "maybeResyncMls" /\ procs'[p].k = "free"
        /\ mlsInfo' # mlsInfo )
      => ( /\ ~keySyncInProgress'
           /\ txPeerRef' # 0 => txRefs'[txPeerRef'] = TxPeerOf(mlsInfo', TRUE)
           /\ \A f \in Feeds :
                ( /\ subscribers[f] # 0
                  /\ parseIdentityWithIndex(subObjs[subscribers[f]].display).hasIndex )
                => /\ subscribers'[f] = subscribers[f]
                   /\ subObjs'[subscribers[f]].peer =
                        RxPeerOf(mlsInfo',
                                 parseIdentityWithIndex(
                                   subObjs[subscribers[f]].display).senderIndex,
                                 TRUE) ) ]_vars

\* C10: no chunk leaves a sender transform while a key sync is in progress.
C10_NoFrameDuringKeySync ==
  lastTx # NULL => ~lastTx.sync

\* C11: a chunk handed to a receiver transform while a key sync is in
\* progress, or while no epoch is installed (mlsInfo is null), or before
\* the subscriber has a receiver context, is dropped: controller.enqueue is
\* not reached.
C11_DropWhileSyncOrJoining ==
  lastRx # NULL =>
    ((lastRx.sync \/ mlsInfo = NULL \/ lastRx.peer = NULL) => ~lastRx.enqueue)

C11_FrameDuringKeySync ==
  /\ lastRx # NULL
  /\ lastRx.sync
  /\ lastRx.peer # NULL
  /\ ~lastRx.enqueue

\* C12: from cleanup() to the next click on Connect the page holds no key
\* material: mlsInfo is null, the TX context reference is null and the
\* subscribers map is empty.
C12_NoKeysAfterStop ==
  ~uiConnected =>
    /\ mlsInfo = NULL
    /\ txPeerRef = 0
    /\ \A f \in Feeds : subscribers[f] = 0

C15_NoIndexNoContext ==
  /\ \A o \in DOMAIN subObjs :
        ~parseIdentityWithIndex(subObjs[o].display).hasIndex
          => subObjs[o].peer = NULL
  /\ lastRx # NULL =>
        (~parseIdentityWithIndex(subObjs[lastRx.sub].display).hasIndex
           => ~lastRx.enqueue)

C15_FrameOfIndexlessAfterRekey ==
  /\ lastRx # NULL
  /\ ~parseIdentityWithIndex(subObjs[lastRx.sub].display).hasIndex
  /\ ~lastRx.sync
  /\ mlsInfo # NULL
  /\ mlsInfo.epoch # epochBase

\* joinAsPublisher has ended without an epoch: the socket is open, the
\* publisher handle is attached, the WASM module is loaded, mlsInfo is
\* null and no joinAsPublisher is running (its mlsJoin failed).
JoinFailed ==
  /\ uiConnected /\ sendJanus
  /\ pluginHandlePub # 0
  /\ sframe = "ready"
  /\ mlsInfo = NULL
  /\ Owed("attach-pub", 0) \notin pending
  /\ \A p \in DOMAIN procs : procs[p].k # "joinAsPublisher"

\* C18: after a failed mlsJoin of joinAsPublisher, while the connection
\* stays open, a new join attempt follows (or an epoch is installed).
C18_FailedJoinIsRetried ==
  JoinFailed ~>
    \/ \E p \in DOMAIN procs : procs[p].k = "joinAsPublisher"
    \/ mlsInfo # NULL
    \/ ~sendJanus

\* A chunk whose decryption failed in a receiver context of an epoch other
\* than the one the MLS server (and so the remote sender) is in.
WrongKeyFrame ==
  /\ lastRx # NULL
  /\ lastRx.throws
  /\ lastRx.peer # NULL
  /\ lastRx.peer.forEpoch # EpochOf(srvEpochNo)

\* C19: if chunks of a remote sender keep failing to open because the
\* receiver context is of another epoch, a resync (maybeResyncMls, which
\* sets the key-sync flag) is eventually started, again and again as long as
\* the failures go on.
C19_WrongKeyTriggersResync ==
  ([]<>WrongKeyFrame) => ([]<>keySyncInProgress)

\* C22: a rekey stall is bounded: once maybeResyncMls has set the key-sync
\* flag, the session leaves the rekeying state again (the flag is cleared,
\* by new contexts or by a timeout that closes the session), also when the
\* MLS request never completes.
C22_RekeyStallIsBounded ==
  keySyncInProgress ~> ~keySyncInProgress

\* C31: a publisher announced in a videoroom "event" gets its entry in the
\* subscribers map only after the maybeResyncMls("new-publishers") started
\* for that event has settled: no step creates the entry of such a feed
\* while that call is suspended at its await before and after the step.
C31_SubscribeAfterResync ==
  [][ \A p \in DOMAIN procs :
        ( /\ procs[p].k = "maybeResyncMls"
          /\ procs'[p] = procs[p] )
        => \A f \in procs[p].feeds :
             ~(subscribers[f.id] = 0 /\ subscribers'[f.id] # 0) ]_vars

\* The epochs the MLS server has been in.
ServerEpochs == 0..srvEpochNo

\* C32: every context installed by startPublishing, handleSubscriberJsep or
\* rekeyAllPeers is consistent: for one epoch the MLS server was in, its key
\* is derived from the master secret of that epoch and its KIDs are those of
\* that epoch, for the same sender index.
C32_ContextIsOfOneEpoch ==
  \A peer \in AllPeers :
    \E n \in ServerEpochs :
      /\ peer.key = deriveTxKey(mlsJoin(n).master_secret, peer.forIndex)
      /\ peer.kidAudio = computeKid(mlsJoin(n).epoch, room, BigOfInt(peer.forIndex))
      /\ peer.kidVideo = kidVideoOf(peer.kidAudio)

\* the epoch changed while startPublishing was suspended: the page publishes
\* with the context of the first epoch and receives with one of the second
C32_EpochChangedWhileSuspended ==
  /\ mlsInfo # NULL /\ mlsInfo.epoch = EpochOf(1)
  /\ localStream /\ txPeerRef # 0 /\ txRefs[txPeerRef] # NULL
  /\ txRefs[txPeerRef].forEpoch = EpochOf(0)
  /\ \E o \in DOMAIN subObjs :
       subObjs[o].peer # NULL /\ subObjs[o].peer.forEpoch = EpochOf(1)

\* C33: the installed epoch never regresses: a maybeResyncMls that finishes
\* never replaces the info of epoch E in mlsInfo by the info of an older
\* epoch, whatever the order in which the answers of overlapping calls come.
C33_EpochNeverRegresses ==
  [][ ( /\ \E p \in DOMAIN procs :
             procs[p].k = "maybeResyncMls" /\ procs'[p].k = "free"
        /\ mlsInfo # NULL /\ mlsInfo' # NULL )
      => ~BigLess(mlsInfo'.epoch, mlsInfo.epoch) ]_vars

\* C34: keySyncInProgress is true in every state in which some
\* maybeResyncMls call has started its MLS request and has not finished.
C34_FlagWhileResyncInFlight ==
  (\E p \in DOMAIN procs : procs[p].k = "maybeResyncMls") => keySyncInProgress

\* A step clears state of the session: the Janus session id, the publisher
\* handle, mlsInfo or the TX context.  (cleanup() empties the subscribers
\* map in the same call; a single entry also goes with removeSubscriber.)
SessionCleared ==
  \/ sessionId # 0 /\ sessionId' = 0
  \/ pluginHandlePub # 0 /\ pluginHandlePub' = 0
  \/ mlsInfo # NULL /\ mlsInfo' = NULL
  \/ txPeerRef # 0 /\ txPeerRef' = 0

\* C35: the state of a session is cleared only by hangup or by the close of
\* the socket the session runs on (ws): the close event of a socket of an
\* earlier connection never clears it.
C35_OnlyOwnSocketClears ==
  [][ SessionCleared
      => \/ Hangup
         \/ ws # 0 /\ socks[ws] # "closed" /\ socks'[ws] = "closed" ]_vars

\* The receiver contexts, by subscriber object.
RxContexts(objs) == [o \in DOMAIN objs |-> objs[o].peer]

\* C36: when the MLS request of a resync fails, the step in which
\* maybeResyncMls resumes leaves mlsInfo, the TX contexts and the receiver
\* context of every subscriber object unchanged (rekeyAllPeers is not
\* called) and clears the key-sync flag.
C36_FailedResyncChangesNothing ==
  [][ MaybeResyncMlsSettles(FALSE)
      => /\ mlsInfo' = mlsInfo
         /\ txRefs' = txRefs
         /\ \A o \in DOMAIN subObjs : RxContexts(subObjs')[o] = RxContexts(subObjs)[o]
         /\ ~keySyncInProgress' ]_vars

\* a resync has just failed while the MLS server is in a newer epoch than
\* the installed one and the page holds a TX context and a receiver context
C36_ResyncFailedAfterAdvance ==
  /\ lastSync # NULL /\ ~lastSync.ok
  /\ mlsInfo # NULL /\ BigLess(mlsInfo.epoch, EpochOf(srvEpochNo))
  /\ txPeerRef # 0 /\ txRefs[txPeerRef] # NULL /\ localStream
  /\ \E o \in DOMAIN subObjs : subObjs[o].peer # NULL

\* C37: the subscribers map holds at most one entry per feed id: every
\* subscriber object that has not been removed is the entry of its feed;
\* and subscribeToPublisher is idempotent: called for a feed id that is
\* present, with any display, it changes neither the map nor the subscriber
\* objects and sends no attach request.
C37_SubscribeIsIdempotent ==
  /\ \A o \in DOMAIN subObjs :
       subObjs[o].pc # "closed" => subscribers[subObjs[o].feedId] = o
  /\ \A f \in Feeds :
       \A d \in DisplaysOf(f) :
         subscribers[f] # 0
           => subscribeToPublisher(f, d, HandlerState, sessionId) = HandlerState

\* the callback of a videoroom event has just called subscribeToPublisher
\* for a publisher whose subscriber already has its handle
C37_SubscribedTwice ==
  /\ lastSync # NULL
  /\ \E f \in lastSync.feeds :
       /\ subscribers[f.id] # 0
       /\ subObjs[subscribers[f.id]].handleId
       /\ Len(subObjs) = 1
====
